---------------------------- MODULE Spec2Model ----------------------------
(***************************************************************************)
(* Contact extraction actor (luki5793-ai/Kontaktdaten).                    *)
(*                                                                         *)
(* The repository holds two pipeline variants:                             *)
(*   - the Actor.main pipeline  (src/src/main.js, src/src/utils.js,        *)
(*     validators of src/unnamed/part_005, collectors of part_003:1-572);  *)
(*   - the run()/processCompany pipeline (src/unnamed/part_002:480-598,    *)
(*     validators of src/src/validators.js, utils of src/unnamed/part_004, *)
(*     collectors of part_003:581-829).                                    *)
(*                                                                         *)
(* JavaScript strings are modelled as sequences of one-character strings,  *)
(* so that toLowerCase, trim, startsWith, includes, split and the regular  *)
(* expressions are computed character by character.                        *)
(***************************************************************************)
EXTENDS Integers, Sequences, FiniteSets, TLC

VARIABLES
    \* ---- single-function harness (validators, deduplication, rankers,
    \*      retryWithBackoff)
    fnPc,        \* "in": argument drawn, "out": function applied (SpecRetry:
                 \* the position inside retryWithBackoff)
    fnArg,       \* the argument
    fnRes,       \* the result(s)
    \* ---- RateLimiter (part_004:5-20)
    now,         \* Date.now()
    lastCall,    \* RateLimiter.lastCall : key -> time (0 = no entry, see `|| 0`)
    callers,     \* per caller: position inside waitFor
    releases,    \* per key: the times at which waitFor returned, in order
    \* ---- Actor.main pipeline (src/src/main.js)
    aInput,      \* Actor.getInput()
    aPc,         \* position of the main function
    aIdx,        \* index of `company` in companies (1-based)
    aTasks,      \* extractionTasks of the current company: collector -> promise
    aAll,        \* allContacts of the current company
    aLimited,    \* limitedContacts of the current company
    aPos,        \* position of the save loop in limitedContacts
    stats,       \* the statistics object
    dataset,     \* records pushed with Actor.pushData, with the company index
    aStatistics, \* values written with Actor.setValue('STATISTICS', ...)
    aVisited,    \* indices of the companies whose loop iteration has begun
    aCompleted,  \* indices of the companies whose iteration reached its end
    aSleeps,     \* indices of the companies after which sleep(5000) was awaited
    \* ---- run / processCompany pipeline (part_002:480-598)
    bInput,      \* the input of run()
    bRun,        \* position of run() and of the process
    bTasks,      \* per company of the list: its processCompany task under p-limit
    bDataset,    \* records pushed with Dataset.pushData, with the company index
    results      \* the results array returned by run()

-----------------------------------------------------------------------------
(***************************************************************************)
(* Strings                                                                 *)
(***************************************************************************)

\* JavaScript null (distinct from the empty string <<>>)
NULL == <<"<null>">>

\* !x for a string-or-null value: null, undefined and '' are falsy
Falsy(s) == s = NULL \/ s = <<>>

LowerLetters == <<"a","b","c","d","e","f","g","h","i","j","k","l","m",
                  "n","o","p","q","r","s","t","u","v","w","x","y","z">>

UpperLetters == <<"A","B","C","D","E","F","G","H","I","J","K","L","M",
                  "N","O","P","Q","R","S","T","U","V","W","X","Y","Z">>

Range(f) == {f[i] : i \in DOMAIN f}

Digits == {"0","1","2","3","4","5","6","7","8","9"}

NonZeroDigits == Digits \ {"0"}

LowerSet == Range(LowerLetters)

UpperSet == Range(UpperLetters)

AlphaSet == LowerSet \cup UpperSet

AlnumSet == AlphaSet \cup Digits

IsAlpha(c) == c \in AlphaSet

IsAlnum(c) == c \in AlnumSet

\* the lower-case letter of each upper-case letter
LowerOf == [c \in UpperSet |-> LowerLetters[CHOOSE i \in DOMAIN UpperLetters : UpperLetters[i] = c]]

\* String.prototype.toLowerCase, one character
LowerChar(c) == IF c \in UpperSet THEN LowerOf[c] ELSE c

toLowerCase(s) == [i \in 1..Len(s) |-> LowerChar(s[i])]

startsWith(s, p) == Len(p) <= Len(s) /\ SubSeq(s, 1, Len(p)) = p

includes(s, p) == \E i \in 0..(Len(s) - Len(p)) : SubSeq(s, i + 1, i + Len(p)) = p

IsSpace(c) == c = " "

\* String.prototype.trim
trim(s) ==
    IF \A i \in 1..Len(s) : IsSpace(s[i]) THEN <<>>
    ELSE LET first == CHOOSE i \in 1..Len(s) :
                          ~IsSpace(s[i]) /\ \A j \in 1..(i-1) : IsSpace(s[j])
             last  == CHOOSE i \in 1..Len(s) :
                          ~IsSpace(s[i]) /\ \A j \in (i+1)..Len(s) : IsSpace(s[j])
         IN  SubSeq(s, first, last)

\* index of the first occurrence of character c in s, 0 when absent
indexOf(s, c) ==
    IF \E i \in 1..Len(s) : s[i] = c
    THEN CHOOSE i \in 1..Len(s) : s[i] = c /\ \A j \in 1..(i-1) : s[j] # c
    ELSE 0

\* s.split(c)[0]
splitHead(s, c) == IF indexOf(s, c) = 0 THEN s ELSE SubSeq(s, 1, indexOf(s, c) - 1)

\* s.split(c) without its first element, joined again by c
splitTail(s, c) == IF indexOf(s, c) = 0 THEN <<>> ELSE SubSeq(s, indexOf(s, c) + 1, Len(s))

\* s.replace(/[set]/g, '')
removeChars(s, set) == SelectSeq(s, LAMBDA c : c \notin set)

\* the labels of s.split('.')
RECURSIVE splitDots(_)
splitDots(s) ==
    IF indexOf(s, ".") = 0 THEN <<s>>
    ELSE <<splitHead(s, ".")>> \o splitDots(splitTail(s, "."))

-----------------------------------------------------------------------------
(***************************************************************************)
(* Field validators of the Actor.main pipeline (src/unnamed/part_005)      *)
(***************************************************************************)

\* the punctuation of the character class [a-zA-Z0-9!#$%&'*+/=?^_{|}~-] (the
\* backquote, which the class also holds, is in no modelled string)
AtomSpecials == {"!","#","$","%","&","'","*","+","/","=","?","^","_","{","|","}","~","-"}

\* [a-zA-Z0-9](?:[a-zA-Z0-9-]{0,61}[a-zA-Z0-9])?
IsDomainLabel(l) ==
    /\ Len(l) >= 1
    /\ Len(l) <= 63
    /\ IsAlnum(l[1])
    /\ IsAlnum(l[Len(l)])
    /\ \A i \in 1..Len(l) : IsAlnum(l[i]) \/ l[i] = "-"

\* part_005:24  /^[a-zA-Z0-9.!#$%&'*+/=?^_{|}~-]+@label(\.label)*$/
emailRegexTest(email) ==
    LET local  == splitHead(email, "@")
        labels == splitDots(splitTail(email, "@"))
    IN  /\ indexOf(email, "@") > 1
        /\ \A i \in 1..Len(local) : IsAlnum(local[i]) \/ local[i] = "." \/ local[i] \in AtomSpecials
        /\ \A i \in 1..Len(labels) : IsDomainLabel(labels[i])

\* part_005:16
genericPrefixes == << <<"i","n","f","o">>, <<"c","o","n","t","a","c","t">>,
                      <<"o","f","f","i","c","e">>, <<"h","e","l","l","o">>,
                      <<"m","a","i","l">>, <<"s","u","p","p","o","r","t">>,
                      <<"a","d","m","i","n">>, <<"n","o","r","e","p","l","y">> >>

\* part_005:10-27
isValidEmail(email) ==
    IF Falsy(email) THEN FALSE
    ELSE LET emailPrefix == toLowerCase(splitHead(email, "@"))
         IN  IF \E k \in DOMAIN genericPrefixes :
                    \/ emailPrefix = genericPrefixes[k]
                    \/ startsWith(emailPrefix, genericPrefixes[k] \o <<".">>)
             THEN FALSE
             ELSE emailRegexTest(email)

\* part_005:43
phonePlaceholders == { <<"1","2","3","4","5","6","7">>, <<"0","0","0","0","0","0","0">>,
                       <<"9","9","9","9","9","9","9">>, <<"1","1","1","1","1","1","1">> }

AllDigits(s) == \A i \in 1..Len(s) : s[i] \in Digits

\* part_005:49  /^(\+|00)[1-9]\d{1,3}\d{7,14}$/ applied to the text after the prefix
IntlBody(s) == /\ Len(s) >= 9 /\ Len(s) <= 18
               /\ s[1] \in NonZeroDigits
               /\ AllDigits(s)

\* part_005:34-55
isValidPhone(phone) ==
    IF Falsy(phone) THEN FALSE
    ELSE LET cleaned == removeChars(phone, {" ", "-", "(", ")", "."})
         IN  IF \E p \in phonePlaceholders : includes(cleaned, p) THEN FALSE
             ELSE \/ /\ startsWith(cleaned, <<"+">>)
                     /\ IntlBody(SubSeq(cleaned, 2, Len(cleaned)))
                  \/ /\ startsWith(cleaned, <<"0","0">>)
                     /\ IntlBody(SubSeq(cleaned, 3, Len(cleaned)))
                  \* /^0\d{9,14}$/
                  \/ /\ startsWith(cleaned, <<"0">>)
                     /\ Len(cleaned) >= 10 /\ Len(cleaned) <= 15
                     /\ AllDigits(cleaned)

-----------------------------------------------------------------------------
(***************************************************************************)
(* Validators of the run() pipeline (src/src/validators.js)                *)
(***************************************************************************)

\* an atom of the RFC 5322 dot-atom: [a-zA-Z0-9!#$%&'*+/=?^_{|}~-]+
IsAtom(a) == Len(a) >= 1 /\ \A i \in 1..Len(a) : IsAlnum(a[i]) \/ a[i] \in AtomSpecials

\* [a-zA-Z0-9](?:[a-zA-Z0-9-]*[a-zA-Z0-9])?
IsHostLabel(l) ==
    /\ Len(l) >= 1
    /\ IsAlnum(l[1])
    /\ IsAlnum(l[Len(l)])
    /\ \A i \in 1..Len(l) : IsAlnum(l[i]) \/ l[i] = "-"

\* validators.js:3 EMAIL_RFC5322_REGEX.  The quoted-string local part and the
\* address-literal domain need the characters '"' and '[', which no modelled
\* string holds; the dot-atom @ host-name alternative is computed in full.
EMAIL_RFC5322_REGEX(e) ==
    LET local  == splitHead(e, "@")
        domain == splitTail(e, "@")
        atoms  == splitDots(local)
        labels == splitDots(domain)
    IN  /\ indexOf(e, "@") > 1
        /\ \A i \in 1..Len(atoms) : IsAtom(atoms[i])
        /\ Len(labels) >= 2
        /\ \A i \in 1..(Len(labels) - 1) : IsHostLabel(labels[i])
        /\ Len(labels[Len(labels)]) >= 2
        /\ \A i \in 1..Len(labels[Len(labels)]) : IsAlpha(labels[Len(labels)][i])

\* validators.js:15
banned == << <<"i","n","f","o","@">>, <<"c","o","n","t","a","c","t","@">>,
             <<"h","e","l","l","o","@">>, <<"s","u","p","p","o","r","t","@">>,
             <<"n","o","r","e","p","l","y","@">>, <<"n","o","-","r","e","p","l","y","@">> >>

\* validators.js:11
MaxEmailLen == 254

\* validators.js:8-18
isValidEmailB(email) ==
    IF Falsy(email) THEN FALSE
    ELSE LET e == trim(email)
         IN  IF Len(e) > MaxEmailLen THEN FALSE
             ELSE IF ~EMAIL_RFC5322_REGEX(e) THEN FALSE
             ELSE IF \E k \in DOMAIN banned : startsWith(toLowerCase(e), banned[k]) THEN FALSE
             ELSE TRUE

\* validators.js:6 PHONE_E164_REGEX  /^\+?[1-9]\d{6,14}$/
PHONE_E164_REGEX(d) ==
    LET body == IF startsWith(d, <<"+">>) THEN SubSeq(d, 2, Len(d)) ELSE d
    IN  /\ Len(body) >= 7 /\ Len(body) <= 15
        /\ body[1] \in NonZeroDigits
        /\ AllDigits(body)

\* validators.js:20-24
isValidPhoneB(phone) ==
    IF Falsy(phone) THEN FALSE
    ELSE PHONE_E164_REGEX(SelectSeq(phone, LAMBDA c : c \in Digits \/ c = "+"))

-----------------------------------------------------------------------------
(***************************************************************************)
(* Variable groups.  Each specification below runs one part of the program *)
(* and leaves the other parts in their idle state.                         *)
(***************************************************************************)

fnVars == <<fnPc, fnArg, fnRes>>

rlVars == <<now, lastCall, callers, releases>>

aVars == <<aInput, aPc, aIdx, aTasks, aAll, aLimited, aPos, stats, dataset,
           aStatistics, aVisited, aCompleted, aSleeps>>

bVars == <<bInput, bRun, bTasks, bDataset, results>>

vars == <<fnVars, rlVars, aVars, bVars>>

FnIdle == fnPc = "idle" /\ fnArg = NULL /\ fnRes = NULL

RLIdle == now = 0 /\ lastCall = <<>> /\ callers = <<>> /\ releases = <<>>

AIdle ==
    /\ aInput = NULL /\ aPc = "idle" /\ aIdx = 0 /\ aTasks = <<>> /\ aAll = <<>>
    /\ aLimited = <<>> /\ aPos = 0 /\ stats = NULL /\ dataset = <<>>
    /\ aStatistics = <<>> /\ aVisited = {} /\ aCompleted = {} /\ aSleeps = <<>>

BIdle ==
    /\ bInput = NULL /\ bRun = "idle" /\ bTasks = <<>> /\ bDataset = <<>>
    /\ results = <<>>

-----------------------------------------------------------------------------
(***************************************************************************)
(* SpecEmail: both isValidEmail functions applied to one address           *)
(***************************************************************************)

\* the generic tokens named by the specification (section 4.4)
GenericTokens == { <<"i","n","f","o">>, <<"c","o","n","t","a","c","t">>,
                   <<"o","f","f","i","c","e">>, <<"h","e","l","l","o">>,
                   <<"m","a","i","l">>, <<"s","u","p","p","o","r","t">>,
                   <<"a","d","m","i","n">>, <<"n","o","r","e","p","l","y">>,
                   <<"n","o","-","r","e","p","l","y">> }

PersonalLocals == { <<"a","n","n","a">>, <<"j",".","s","c","h","m","i","d","t">>,
                    <<"m","a","x","9">> }

LocalSuffixes == { <<>>, <<".","d","e">>, <<"-","d","e">>, <<"_","d","e">>,
                   <<"s">>, <<".">> }

DomainParts == { <<"@","f","i","r","m",".","c","o","m">>, <<"@","x",".","d","e">>,
                 <<"@","f","i","r","m">>, <<".","c","o","m">> }

\* first letter in upper case (addresses are compared case-insensitively)
Capitalise(s) ==
    IF s # <<>> /\ s[1] \in LowerSet
    THEN <<UpperLetters[CHOOSE i \in DOMAIN LowerLetters : LowerLetters[i] = s[1]]>> \o Tail(s)
    ELSE s

EmailInputs ==
    {NULL, <<>>}
    \cup { (t \o x) \o d : t \in GenericTokens \cup PersonalLocals, x \in LocalSuffixes, d \in DomainParts }
    \cup { Capitalise(t \o x) \o d : t \in GenericTokens \cup PersonalLocals, x \in LocalSuffixes, d \in DomainParts }

InitEmail ==
    /\ fnPc = "in"
    /\ fnArg \in EmailInputs
    /\ fnRes = NULL
    /\ RLIdle
    /\ AIdle
    /\ BIdle

\* isValidEmail(email) of each variant
ApplyIsValidEmail ==
    /\ fnPc = "in"
    /\ fnPc' = "out"
    /\ fnRes' = [actor |-> isValidEmail(fnArg), run |-> isValidEmailB(fnArg)]
    /\ UNCHANGED <<fnArg, rlVars, aVars, bVars>>

NextEmail == ApplyIsValidEmail

SpecEmail == InitEmail /\ [][NextEmail]_vars

\* separators that may follow a generic token in a local part
Separators == {".", "-", "_", "+"}

\* the local part (text before '@', lower-cased) is a generic token, or begins
\* with one followed by a separator
IsGenericLocal(email) ==
    LET l == toLowerCase(splitHead(email, "@"))
    IN  \E t \in GenericTokens :
            \/ l = t
            \/ /\ startsWith(l, t) /\ Len(l) > Len(t) /\ l[Len(t) + 1] \in Separators

\* C6: isValidEmail returns false for every address whose local part equals a
\* generic token of {info, contact, office, hello, mail, support, admin, noreply,
\* no-reply} or begins with one followed by a separator, and true for a
\* syntactically valid address whose local part is not generic.
C6_GenericInboxRejected ==
    (fnPc = "out" /\ ~Falsy(fnArg)) =>
        /\ IsGenericLocal(fnArg) => (~fnRes.actor /\ ~fnRes.run)
        /\ (~IsGenericLocal(fnArg) /\ emailRegexTest(fnArg) /\ EMAIL_RFC5322_REGEX(fnArg))
               => (fnRes.actor /\ fnRes.run)

-----------------------------------------------------------------------------
(***************************************************************************)
(* Ranking, deduplication and limiting of the Actor.main pipeline          *)
(* (src/src/utils.js)                                                      *)
(***************************************************************************)

\* utils.js:34
leadershipKeywords == { <<"h","e","a","d">>, <<"d","i","r","e","c","t","o","r">>, <<"c","h","i","e","f">>, <<"v","p">>,
                        <<"v","i","c","e"," ","p","r","e","s","i","d","e","n","t">>, <<"c","-","l","e","v","e","l">>, <<"l","e","i","t","e","r">>, <<"l","e","a","d">> }

\* utils.js:19-31: the first index i (0-based) at which the title matches a role
\* exactly or partially, or -1
FirstRoleMatch(normalizedTitle, targetRoles) ==
    LET hit(i) == LET targetRole == toLowerCase(targetRoles[i])
                  IN  \/ normalizedTitle = targetRole
                      \/ includes(normalizedTitle, targetRole)
                      \/ includes(targetRole, normalizedTitle)
    IN  IF \E i \in 1..Len(targetRoles) : hit(i)
        THEN (CHOOSE i \in 1..Len(targetRoles) : hit(i) /\ \A j \in 1..(i-1) : ~hit(j)) - 1
        ELSE -1

\* utils.js:13-42
calculateRolePriority(jobTitle, targetRoles) ==
    IF Falsy(jobTitle) THEN 0
    ELSE LET normalizedTitle == toLowerCase(jobTitle)
             i == FirstRoleMatch(normalizedTitle, targetRoles)
         IN  IF i >= 0
             THEN IF normalizedTitle = toLowerCase(targetRoles[i + 1])
                  THEN 1000 - i
                  ELSE 500 - i
             ELSE IF \E kw \in leadershipKeywords : includes(normalizedTitle, kw)
                  THEN 100
                  ELSE 0


\* contact._priority || 0  (the field is absent before sortContactsByPriority ran)
priorityOf(contact) == IF "_priority" \in DOMAIN contact THEN contact._priority ELSE 0

\* contact.email?.toLowerCase()
emailKey(contact) == IF contact.email = NULL THEN NULL ELSE toLowerCase(contact.email)

\* position of key in the Map `seen` (insertion order), 0 when absent
seenIndex(seen, key) ==
    IF \E i \in 1..Len(seen) : seen[i].key = key
    THEN CHOOSE i \in 1..Len(seen) : seen[i].key = key
    ELSE 0

\* utils.js:52-69, one iteration of the loop, with no has(email) test
dedupStep_NoKeyTest(seen, contact) ==
    LET email == emailKey(contact)
    IN  IF Falsy(email) THEN seen
        ELSE Append(seen, [key |-> email, contact |-> contact])

\* utils.js:52-69, one iteration of the loop, replacing on an equal score too
dedupStep_ReplaceOnTie(seen, contact) ==
    LET email == emailKey(contact)
    IN  IF Falsy(email) THEN seen
        ELSE IF seenIndex(seen, email) = 0
             THEN Append(seen, [key |-> email, contact |-> contact])
             ELSE IF priorityOf(contact) >= priorityOf(seen[seenIndex(seen, email)].contact)
                  THEN [seen EXCEPT ![seenIndex(seen, email)].contact = contact]
                  ELSE seen


\* utils.js:52-69, one iteration of the loop over contacts
dedupStep(seen, contact) ==
    LET email == emailKey(contact)
    IN  IF Falsy(email) THEN seen
        ELSE IF seenIndex(seen, email) = 0
             THEN Append(seen, [key |-> email, contact |-> contact])
             ELSE LET existing == seen[seenIndex(seen, email)].contact
                      existingPriority == priorityOf(existing)
                      newPriority == priorityOf(contact)
                  IN  IF newPriority > existingPriority
                      THEN [seen EXCEPT ![seenIndex(seen, email)].contact = contact]
                      ELSE seen

RECURSIVE dedupLoop(_, _)
dedupLoop(seen, contacts) ==
    IF contacts = <<>> THEN seen
    ELSE dedupLoop(dedupStep(seen, Head(contacts)), Tail(contacts))

\* utils.js:49-72
deduplicateContacts(contacts) ==
    LET seen == dedupLoop(<<>>, contacts)
    IN  [i \in 1..Len(seen) |-> seen[i].contact]

\* validators.js:35-39, one iteration of the loop
dedupeByEmailStep(map, c) ==
    IF Falsy(c.email) THEN map
    ELSE LET key == toLowerCase(c.email)
         IN  IF seenIndex(map, key) = 0
             THEN Append(map, [key |-> key, contact |-> c])
             ELSE map

RECURSIVE dedupeByEmailLoop(_, _)
dedupeByEmailLoop(map, contacts) ==
    IF contacts = <<>> THEN map
    ELSE dedupeByEmailLoop(dedupeByEmailStep(map, Head(contacts)), Tail(contacts))

\* validators.js:33-41
dedupeByEmail(contacts) ==
    LET map == dedupeByEmailLoop(<<>>, contacts)
    IN  [i \in 1..Len(map) |-> map[i].contact]

\* utils.js:84  .sort((a, b) => b._priority - a._priority): Array.prototype.sort
\* is stable; x is inserted behind every element whose _priority is >= its own.
RECURSIVE insertDesc(_, _)
insertDesc(sorted, x) ==
    IF sorted = <<>> THEN <<x>>
    ELSE IF Head(sorted)._priority >= x._priority
         THEN <<Head(sorted)>> \o insertDesc(Tail(sorted), x)
         ELSE <<x>> \o sorted

\* utils.js:84 with the list left in its order
sortDesc_Unsorted(list) == list


RECURSIVE sortDesc(_)
sortDesc(list) ==
    IF list = <<>> THEN <<>>
    ELSE insertDesc(sortDesc(SubSeq(list, 1, Len(list) - 1)), list[Len(list)])

\* { ...contact, _priority: priority }
withPriority(contact, priority) ==
    [f \in (DOMAIN contact) \cup {"_priority"} |->
        IF f = "_priority" THEN priority ELSE contact[f]]

\* utils.js:80-85 without the sort
sortContactsByPriority_NoSort(contacts, targetRoles) ==
    [i \in 1..Len(contacts) |->
        withPriority(contacts[i], calculateRolePriority(contacts[i].jobTitle, targetRoles))]

\* utils.js:80-85
sortContactsByPriority(contacts, targetRoles) ==
    sortDesc([i \in 1..Len(contacts) |->
                 withPriority(contacts[i], calculateRolePriority(contacts[i].jobTitle, targetRoles))])

\* Array.prototype.slice(0, n)
slice0(list, n) ==
    IF n >= 0
    THEN SubSeq(list, 1, IF n < Len(list) THEN n ELSE Len(list))
    ELSE SubSeq(list, 1, Len(list) + n)

\* utils.js:96-104: the keys of companyGroups in insertion order
RECURSIVE companyKeys(_, _)
companyKeys(contacts, keys) ==
    IF contacts = <<>> THEN keys
    ELSE companyKeys(Tail(contacts),
                     IF \E i \in 1..Len(keys) : keys[i] = Head(contacts).company
                     THEN keys
                     ELSE Append(keys, Head(contacts).company))

RECURSIVE flatten(_)
flatten(lists) == IF lists = <<>> THEN <<>> ELSE Head(lists) \o flatten(Tail(lists))

\* utils.js:93-114 without the slice
limitContactsPerCompany_NoSlice(contacts, maxPerCompany) == contacts

\* utils.js:93-114
limitContactsPerCompany(contacts, maxPerCompany) ==
    LET keys == companyKeys(contacts, <<>>)
        companyContacts(k) == SelectSeq(contacts, LAMBDA c : c.company = keys[k])
    IN  flatten([k \in 1..Len(keys) |-> slice0(companyContacts(k), maxPerCompany)])

-----------------------------------------------------------------------------
(***************************************************************************)
(* Contacts                                                                *)
(***************************************************************************)

\* part_003:145-157 / part_003:650: the contact object a collector builds
mkContact(company, firstName, lastName, email, phone, jobTitle, source) ==
    [company |-> company, location |-> <<>>, salutation |-> <<>>,
     firstName |-> firstName, lastName |-> lastName, email |-> email,
     phone |-> phone, jobTitle |-> jobTitle, linkedInUrl |-> <<>>, source |-> source]

\* main.js:38-48 (default targetRoles)
DefaultTargetRoles == << <<"C","T","O">>, <<"C","I","O">>, <<"H","e","a","d"," ","o","f"," ","I","T">>, <<"I","T","-","L","e","i","t","e","r">>, <<"V","P"," ","E","n","g","i","n","e","e","r","i","n","g">>,
                         <<"E","n","g","i","n","e","e","r","i","n","g"," ","M","a","n","a","g","e","r">>, <<"H","R"," ","D","i","r","e","c","t","o","r">>, <<"R","e","c","r","u","i","t","i","n","g"," ","M","a","n","a","g","e","r">>,
                         <<"H","e","a","d"," ","o","f"," ","T","a","l","e","n","t"," ","A","c","q","u","i","s","i","t","i","o","n">> >>

Acme == <<"A","c","m","e">>

GoodPhone == <<"+","4","9"," ","3","0"," ","1","2","3","4","-","5","8","9","0">>

-----------------------------------------------------------------------------
(***************************************************************************)
(* SpecDedup: deduplicateContacts and dedupeByEmail applied to one list    *)
(***************************************************************************)

\* longest list handed to the deduplicators
MaxDedupLen == 3

DedupBase ==
    { mkContact(Acme, <<"J","a","n">>, <<"S","c","h","m","i","d","t">>, <<"j",".","s","c","h","m","i","d","t","@","f","i","r","m",".","d","e">>, <<>>, <<"C","I","O">>, <<"l","i","n","k","e","d","i","n">>),
      mkContact(Acme, <<"J","a","n">>, <<"S","c","h","m","i","d","t">>, <<"J",".","S","c","h","m","i","d","t","@","F","i","r","m",".","D","E">>, <<>>, <<"E","n","g","i","n","e","e","r">>, <<"w","e","b","s","i","t","e">>),
      mkContact(Acme, <<"J","a","n">>, <<"S","c","h","m","i","d","t">>, <<"j",".","s","c","h","m","i","d","t","@","F","I","R","M",".","d","e">>, <<>>, <<"C","I","O">>, <<"x","i","n","g">>),
      mkContact(Acme, <<"A","n","n","a">>, <<"M","u","e","l","l","e","r">>, <<"a",".","m","u","e","l","l","e","r","@","a","c","m","e",".","c","o","m">>, <<>>, <<"C","T","O">>, <<"w","e","b","s","i","t","e">>),
      mkContact(Acme, <<"O","t","t","o">>, <<"K","e","r","n">>, NULL, GoodPhone, <<"H","e","a","d"," ","o","f"," ","I","T">>, <<"i","m","p","r","e","s","s","u","m">>),
      mkContact(Acme, <<"U","t","e">>, <<"L","a","n","g">>, <<>>, GoodPhone, <<"C","T","O">>, <<"x","i","n","g">>) }

\* contacts as the collectors return them and as sortContactsByPriority leaves them
DedupPool ==
    DedupBase \cup { withPriority(c, calculateRolePriority(c.jobTitle, DefaultTargetRoles)) : c \in DedupBase }

SeqsUpTo(set, n) == UNION { [1..k -> set] : k \in 0..n }

InitDedup ==
    /\ fnPc = "in"
    /\ fnArg \in SeqsUpTo(DedupPool, MaxDedupLen)
    /\ fnRes = NULL
    /\ RLIdle
    /\ AIdle
    /\ BIdle

\* deduplicateContacts(contacts) and dedupeByEmail(contacts)
ApplyDedup ==
    /\ fnPc = "in"
    /\ fnPc' = "out"
    /\ fnRes' = [dedup |-> deduplicateContacts(fnArg), byEmail |-> dedupeByEmail(fnArg)]
    /\ UNCHANGED <<fnArg, rlVars, aVars, bVars>>

NextDedup == ApplyDedup

SpecDedup == InitDedup /\ [][NextDedup]_vars

\* no more entries than the input, every entry taken from the input, and emails
\* pairwise distinct under case-insensitive comparison
IsDeduplicated(out, in) ==
    /\ Len(out) <= Len(in)
    /\ \A i \in 1..Len(out) : \E j \in 1..Len(in) : out[i] = in[j]
    /\ \A i, j \in 1..Len(out) :
           i # j => toLowerCase(out[i].email) # toLowerCase(out[j].email)

\* C4: for every candidate list, the output of deduplicateContacts and of
\* dedupeByEmail has no more entries than the input, every output entry is an
\* element of the input, and no two output emails are equal case-insensitively.
C4_DedupDistinctEmails ==
    fnPc = "out" =>
        /\ IsDeduplicated(fnRes.dedup, fnArg)
        /\ IsDeduplicated(fnRes.byEmail, fnArg)

\* C4 witness: two inputs whose emails differ only in case were merged into one
C4_Witness ==
    /\ fnPc = "out"
    /\ \E i, j \in 1..Len(fnArg) :
           /\ i # j
           /\ ~Falsy(fnArg[i].email) /\ ~Falsy(fnArg[j].email)
           /\ fnArg[i].email # fnArg[j].email
           /\ toLowerCase(fnArg[i].email) = toLowerCase(fnArg[j].email)
    /\ Len(fnRes.dedup) = 1
    /\ Len(fnRes.byEmail) = 1

-----------------------------------------------------------------------------
(***************************************************************************)
(* SpecRL: RateLimiter.waitFor under concurrent callers                    *)
(* (src/unnamed/part_004:5-20, used by safeNavigate, part_003:585-590)     *)
(*                                                                         *)
(* JavaScript runs waitFor without interruption up to `await sleep(...)`   *)
(* and again from the timer's expiry to the return, so each of the two     *)
(* pieces is one action.  A timer never fires early but may fire late.     *)
(***************************************************************************)

\* part_003:585  new RateLimiter(1000)
minDelayMs == 1000

\* Date.now() when the first caller arrives (any value >= minDelayMs: the
\* clock counts milliseconds since 1970)
StartTime == 100000

\* granularity of the modelled clock, in ms
TickMs == 500

\* the clock is followed for this many ms
MaxElapsedMs == 3000

\* concurrent callers of waitFor (one navigation each)
NumCallers == 3

Callers == 1..NumCallers

\* domainFromUrl(url) || 'global'
Keys == {"firm.de", "global"}

\* a limiter with one last-call time for all keys: the latest of the recorded times
lastCallGet_AnyKey(domain) ==
    IF DOMAIN lastCall = {} THEN 0
    ELSE CHOOSE t \in Range(lastCall) : \A u \in Range(lastCall) : u <= t

\* this.lastCall.get(domain) || 0
lastCallGet(domain) == IF domain \in DOMAIN lastCall THEN lastCall[domain] ELSE 0

\* this.lastCall.set(domain, t)
lastCallSet(domain, t) ==
    [d \in (DOMAIN lastCall) \cup {domain} |-> IF d = domain THEN t ELSE lastCall[d]]

InitRL ==
    /\ now = StartTime
    /\ lastCall = << >>
    /\ callers = [c \in Callers |-> [pc |-> "idle", key |-> "global", wakeAt |-> 0, slept |-> FALSE]]
    /\ releases = [k \in Keys |-> << >>]
    /\ FnIdle
    /\ AIdle
    /\ BIdle

\* time passes
Tick ==
    /\ now + TickMs <= StartTime + MaxElapsedMs
    /\ now' = now + TickMs
    /\ UNCHANGED <<lastCall, callers, releases, fnVars, aVars, bVars>>

\* part_004:11-17: waitFor(domain) from its call to `await sleep(...)`, or, when
\* no sleep is needed, to its return (part_004:18)
WaitForCall(c, domain) ==
    /\ callers[c].pc = "idle"
    /\ LET last    == lastCallGet(domain)
           elapsed == now - last
       IN  IF elapsed < minDelayMs
           THEN /\ callers' = [callers EXCEPT ![c] = [pc |-> "sleeping", key |-> domain,
                                                      wakeAt |-> now + (minDelayMs - elapsed),
                                                      slept |-> TRUE]]
                /\ UNCHANGED <<lastCall, releases>>
           ELSE /\ callers' = [callers EXCEPT ![c] = [pc |-> "returned", key |-> domain,
                                                      wakeAt |-> 0, slept |-> FALSE]]
                /\ lastCall' = lastCallSet(domain, now)
                /\ releases' = [releases EXCEPT ![domain] = Append(@, now)]
    /\ UNCHANGED <<now, fnVars, aVars, bVars>>

\* part_004:16-19: the sleep timer fired; waitFor records Date.now() and returns
WaitForWake(c) ==
    /\ callers[c].pc = "sleeping"
    /\ now >= callers[c].wakeAt
    /\ callers' = [callers EXCEPT ![c].pc = "returned"]
    /\ lastCall' = lastCallSet(callers[c].key, now)
    /\ releases' = [releases EXCEPT ![callers[c].key] = Append(@, now)]
    /\ UNCHANGED <<now, fnVars, aVars, bVars>>

NextRL ==
    \/ Tick
    \/ \E c \in Callers, domain \in Keys : WaitForCall(c, domain)
    \/ \E c \in Callers : WaitForWake(c)

SpecRL == InitRL /\ [][NextRL]_vars

\* C1: for N >= 2 concurrent callers of waitFor on the same key, every two
\* consecutive returns (releases) for that key are at least minDelayMs apart.
C1_ReleasesSpaced ==
    \A k \in DOMAIN releases :
        \A i \in 1..(Len(releases[k]) - 1) :
            releases[k][i + 1] - releases[k][i] >= minDelayMs

\* a caller only sleeps when a call on its own key has been recorded
SleepsOnlyForOwnKey ==
    \A c \in DOMAIN callers : callers[c].slept => callers[c].key \in DOMAIN lastCall

\* the last-call time of key k is only written by a caller of waitFor(k) that
\* returns in this step
WritesOnlyOwnKey ==
    \A k \in Keys :
        ( /\ k \in DOMAIN lastCall'
          /\ (k \notin DOMAIN lastCall \/ lastCall'[k] # lastCall[k]) )
        => \E c \in DOMAIN callers :
               /\ callers[c].pc # "returned"
               /\ callers'[c].pc = "returned"
               /\ callers'[c].key = k

\* C14: a caller on key k1 is never delayed because of calls on another key:
\* waitFor(k1) sleeps only if a call on k1 was recorded before, however many
\* callers wait on k2, and a call on k2 never changes the time recorded for k1.
C14_KeysIndependent == [](SleepsOnlyForOwnKey) /\ [][WritesOnlyOwnKey]_vars

\* a first call on "global" returned without sleeping less than minDelayMs
\* after a call on "firm.de", on which another caller is still sleeping
C14_Witness ==
    /\ DOMAIN callers # {}
    /\ \E c1, c2 \in DOMAIN callers :
           /\ callers[c1].pc = "returned" /\ callers[c1].key = "global" /\ ~callers[c1].slept
           /\ callers[c2].pc = "sleeping" /\ callers[c2].key = "firm.de"
           /\ Len(releases["global"]) = 1
           /\ Len(releases["firm.de"]) >= 1
           /\ releases["global"][1] - releases["firm.de"][1] < minDelayMs
           /\ releases["global"][1] > releases["firm.de"][1]


-----------------------------------------------------------------------------
(***************************************************************************)
(* Whole-record validation (src/unnamed/part_005) and company names        *)
(***************************************************************************)

\* part_005:75
namePlaceholders == { <<"x","x","x">>, <<"n","/","a">>, <<"t","b","d">>, <<"u","n","k","n","o","w","n">>, <<"t","e","s","t">>, <<"d","u","m","m","y">>,
                      <<"p","l","a","c","e","h","o","l","d","e","r">>, <<"n","a","m","e">> }

\* part_005:81  [a-zA-Z...\s\-'\.]  (the accented letters of the class are in no
\* modelled string)
IsNameChar(c) == IsAlpha(c) \/ c \in {" ", "-", "'", "."}

\* part_005:62-84
isValidName(name) ==
    IF Falsy(name) THEN FALSE
    ELSE LET trimmed == trim(name)
         IN  IF Len(trimmed) < 2 THEN FALSE
             ELSE IF toLowerCase(trimmed) \in namePlaceholders THEN FALSE
             ELSE \A i \in 1..Len(trimmed) : IsNameChar(trimmed[i])

\* part_005:96
validSalutations == { <<"H","e","r","r">>, <<"F","r","a","u">>, <<"M","r">>, <<"M","r","s">>, <<"M","s">>, <<"D","r">>, <<"P","r","o","f">> }

\* part_005:91-98
isValidSalutation(salutation) ==
    IF Falsy(salutation) THEN FALSE
    ELSE \E s \in validSalutations : includes(toLowerCase(salutation), toLowerCase(s))

\* part_005:118
jobTitlePlaceholders == { <<"t","b","d">>, <<"n","/","a">>, <<"u","n","k","n","o","w","n">>, <<"t","e","s","t">> }

\* part_005:105-124
isValidJobTitle(jobTitle) ==
    IF Falsy(jobTitle) THEN FALSE
    ELSE LET trimmed == trim(jobTitle)
         IN  IF Len(trimmed) < 3 THEN FALSE
             ELSE toLowerCase(trimmed) \notin jobTitlePlaceholders

\* s without the prefix p
dropPrefix(s, p) == SubSeq(s, Len(p) + 1, Len(s))

\* part_005:136  /^https?:\/\/(www\.)?linkedin\.com\/(in|pub)\/[a-zA-Z0-9\-]+\/?$/
linkedInRegexTest(url) ==
    LET afterScheme ==
            IF startsWith(url, <<"h","t","t","p","s",":","/","/">>) THEN dropPrefix(url, <<"h","t","t","p","s",":","/","/">>)
            ELSE IF startsWith(url, <<"h","t","t","p",":","/","/">>) THEN dropPrefix(url, <<"h","t","t","p",":","/","/">>)
            ELSE NULL
        afterWww ==
            IF startsWith(afterScheme, <<"w","w","w",".","l","i","n","k","e","d","i","n",".","c","o","m","/">>) THEN dropPrefix(afterScheme, <<"w","w","w",".">>)
            ELSE afterScheme
        afterHost ==
            IF startsWith(afterWww, <<"l","i","n","k","e","d","i","n",".","c","o","m","/">>) THEN dropPrefix(afterWww, <<"l","i","n","k","e","d","i","n",".","c","o","m","/">>)
            ELSE NULL
        afterKind ==
            IF startsWith(afterHost, <<"i","n","/">>) THEN dropPrefix(afterHost, <<"i","n","/">>)
            ELSE IF startsWith(afterHost, <<"p","u","b","/">>) THEN dropPrefix(afterHost, <<"p","u","b","/">>)
            ELSE NULL
        slug ==
            IF afterKind # <<>> /\ afterKind[Len(afterKind)] = "/"
            THEN SubSeq(afterKind, 1, Len(afterKind) - 1)
            ELSE afterKind
    IN  /\ afterScheme # NULL
        /\ afterHost # NULL
        /\ afterKind # NULL
        /\ Len(slug) >= 1
        /\ \A i \in 1..Len(slug) : IsAlnum(slug[i]) \/ slug[i] = "-"

\* part_005:131-138
isValidLinkedInUrl(url) == IF Falsy(url) THEN FALSE ELSE linkedInRegexTest(url)

\* part_005:145-186: the errors list without the test of the optional phone
validationErrors_NoPhoneTest(contact) ==
    (IF Falsy(contact.company) \/ Len(trim(contact.company)) = 0
        THEN <<"Company name is required">> ELSE <<>>)
    \o (IF ~isValidName(contact.firstName) THEN <<"Invalid or missing first name">> ELSE <<>>)
    \o (IF ~isValidName(contact.lastName) THEN <<"Invalid or missing last name">> ELSE <<>>)
    \o (IF ~isValidEmail(contact.email) THEN <<"Invalid or generic email address">> ELSE <<>>)
    \o (IF ~isValidJobTitle(contact.jobTitle) THEN <<"Invalid or missing job title">> ELSE <<>>)
    \o (IF ~Falsy(contact.salutation) /\ ~isValidSalutation(contact.salutation)
        THEN <<"Invalid salutation">> ELSE <<>>)
    \o (IF ~Falsy(contact.linkedInUrl) /\ ~isValidLinkedInUrl(contact.linkedInUrl)
        THEN <<"Invalid LinkedIn URL">> ELSE <<>>)


\* part_005:145-186: the errors list
validationErrors(contact) ==
    (IF Falsy(contact.company) \/ Len(trim(contact.company)) = 0
        THEN <<"Company name is required">> ELSE <<>>)
    \o (IF ~isValidName(contact.firstName) THEN <<"Invalid or missing first name">> ELSE <<>>)
    \o (IF ~isValidName(contact.lastName) THEN <<"Invalid or missing last name">> ELSE <<>>)
    \o (IF ~isValidEmail(contact.email) THEN <<"Invalid or generic email address">> ELSE <<>>)
    \o (IF ~isValidJobTitle(contact.jobTitle) THEN <<"Invalid or missing job title">> ELSE <<>>)
    \o (IF ~Falsy(contact.phone) /\ ~isValidPhone(contact.phone)
        THEN <<"Invalid phone number format">> ELSE <<>>)
    \o (IF ~Falsy(contact.salutation) /\ ~isValidSalutation(contact.salutation)
        THEN <<"Invalid salutation">> ELSE <<>>)
    \o (IF ~Falsy(contact.linkedInUrl) /\ ~isValidLinkedInUrl(contact.linkedInUrl)
        THEN <<"Invalid LinkedIn URL">> ELSE <<>>)

\* part_005:145-186
validateContact(contact) ==
    LET errors == validationErrors(contact)
    IN  [isValid |-> Len(errors) = 0, errors |-> errors]

\* utils.js:252
suffixes == << <<"G","m","b","H">>, <<"A","G">>, <<"S","E">>, <<"K","G">>, <<"O","H","G">>, <<"G","b","R">>, <<"U","G">>, <<"e",".","V",".">>,
               <<"I","n","c",".">>, <<"L","L","C">>, <<"L","t","d",".">>, <<"C","o","r","p",".">> >>

\* text t matches the suffix as a case-insensitive regular expression, in which
\* '.' stands for any character
matchesSuffix(t, suffix) ==
    /\ Len(t) = Len(suffix)
    /\ \A i \in 1..Len(t) : suffix[i] = "." \/ LowerChar(t[i]) = LowerChar(suffix[i])

\* s from position i on matches /^\s+suffix\s*$/
suffixMatchAt(s, i, suffix) ==
    \E j \in (i + 1)..Len(s) :
        /\ \A k \in i..(j - 1) : IsSpace(s[k])
        /\ j + Len(suffix) - 1 <= Len(s)
        /\ matchesSuffix(SubSeq(s, j, j + Len(suffix) - 1), suffix)
        /\ \A k \in (j + Len(suffix))..Len(s) : IsSpace(s[k])

\* utils.js:255-256  normalized.replace(new RegExp(`\\s+${suffix}\\s*$`, 'i'), '')
stripSuffix(s, suffix) ==
    IF \E i \in 1..Len(s) : suffixMatchAt(s, i, suffix)
    THEN LET i == CHOOSE i \in 1..Len(s) :
                      /\ suffixMatchAt(s, i, suffix)
                      /\ \A h \in 1..(i - 1) : ~suffixMatchAt(s, h, suffix)
         IN  SubSeq(s, 1, i - 1)
    ELSE s

RECURSIVE stripSuffixes(_, _)
stripSuffixes(s, k) ==
    IF k > Len(suffixes) THEN s ELSE stripSuffixes(stripSuffix(s, suffixes[k]), k + 1)

\* utils.js:246-260
normalizeCompanyName(companyName) ==
    IF Falsy(companyName) THEN <<>>
    ELSE trim(stripSuffixes(trim(companyName), 1))

\* part_004:46-48
normalizeCompanyNameB(name) == trim(name)

-----------------------------------------------------------------------------
(***************************************************************************)
(* SpecA: the Actor.main pipeline (src/src/main.js:23-211)                 *)
(*                                                                         *)
(* The main function is sequential; the only concurrency is the collectors *)
(* of one company, which are all started before Promise.all is awaited.    *)
(***************************************************************************)

\* longest companies list of a run
MaxCompanies == 2

\* largest maxContactsPerCompany of a run
MaxContacts == 2

CompanyNamesA == << <<"A","c","m","e"," ","G","m","b","H">>, <<"F","i","r","m"," ","A","G">>, <<"A","c","m","e"," ","A","G">>, <<"K","e","r","n"," ","K","G">> >>

\* the companies lists of the modelled runs: the first n names of a sequence of
\* distinct names (two of which normalize to the same name), and a list that
\* names one company twice
CompanyLists ==
    { SubSeq(CompanyNamesA, 1, n) : n \in 0..MaxCompanies }
    \cup { << CompanyNamesA[1], CompanyNamesA[1] >> }

\* main.js:113
DachCountries == {"Germany", "Austria", "Switzerland", "Deutschland", "Oesterreich", "Schweiz"}

\* the source flags and the country of a run: website, LinkedIn and register;
\* Xing and register; LinkedIn and register with Xing switched off by the
\* country
SourceConfigs ==
    { [enableCompanyWebsite |-> TRUE,  enableLinkedIn |-> TRUE,  enableXing |-> FALSE, country |-> "Germany"],
      [enableCompanyWebsite |-> FALSE, enableLinkedIn |-> FALSE, enableXing |-> TRUE,  country |-> "Germany"],
      [enableCompanyWebsite |-> FALSE, enableLinkedIn |-> TRUE,  enableXing |-> TRUE,  country |-> "France"] }

\* main.js:27-54: the run input.  given = FALSE: Actor.getInput() returned null;
\* hasCompanies = FALSE: the input has no companies field
AInputs ==
    { [given |-> g, hasCompanies |-> h, companies |-> cs, maxContactsPerCompany |-> mx,
       sources |-> sc] :
        g \in BOOLEAN, h \in BOOLEAN,
        cs \in CompanyLists,
        mx \in 0..MaxContacts,
        sc \in SourceConfigs }

\* main.js:35: const { companies = [] } = input
companiesOf(input) == IF input.hasCompanies THEN input.companies ELSE <<>>

\* main.js:88-130: the collectors pushed to extractionTasks, in order
extractionTasks(input) ==
    SelectSeq(<<"website", "linkedin", "xing", "register">>,
              LAMBDA c : \/ c = "website" /\ input.sources.enableCompanyWebsite
                         \/ c = "linkedin" /\ input.sources.enableLinkedIn
                         \/ c = "xing" /\ input.sources.enableXing
                                       /\ input.sources.country \in DachCountries
                         \/ c = "register")

\* a sanitized contact as built by the collectors (part_003:145-157, 308-320);
\* company is normalizeCompanyName(company)
collected(company, firstName, lastName, email, jobTitle, linkedInUrl, source) ==
    [mkContact(company, firstName, lastName, email, <<>>, jobTitle, source)
        EXCEPT !.linkedInUrl = linkedInUrl]

\* The lists a collector may resolve with.  The website and register collectors
\* only return contacts that passed validateContact (part_003:159-162, 540-543);
\* the LinkedIn collector returns profiles with a constructed
\* first.last@example.com address without validating them (part_003:306-326),
\* the Xing collector profiles with an empty email (part_003:412-428).
CollectorResults(c, company) ==
    CASE c = "website" ->
           { <<collected(company, <<"A","n","n","a">>, <<"M","u","e","l","l","e","r">>, <<"a",".","m","u","e","l","l","e","r","@","a","c","m","e",".","c","o","m">>, <<"C","T","O">>, <<>>, <<"c","o","m","p","a","n","y","_","w","e","b","s","i","t","e">>)>>,
             <<collected(company, <<"J","a","n">>, <<"S","c","h","m","i","d","t">>, <<"j","a","n",".","s","c","h","m","i","d","t","@","e","x","a","m","p","l","e",".","c","o","m">>, <<"E","n","g","i","n","e","e","r">>, <<>>, <<"c","o","m","p","a","n","y","_","w","e","b","s","i","t","e">>)>> }
      [] c = "linkedin" ->
           { <<collected(company, <<"J","a","n">>, <<"S","c","h","m","i","d","t">>, <<"j","a","n",".","s","c","h","m","i","d","t","@","e","x","a","m","p","l","e",".","c","o","m">>, <<"C","I","O">>,
                         <<"h","t","t","p","s",":","/","/","w","w","w",".","l","i","n","k","e","d","i","n",".","c","o","m","/","i","n","/","j","a","n","-","s","c","h","m","i","d","t">>, <<"l","i","n","k","e","d","i","n">>)>>,
             <<collected(company, <<"R","2">>, <<"D","t","w","o">>, <<"r","2",".","d","t","w","o","@","e","x","a","m","p","l","e",".","c","o","m">>, <<"C","T","O">>,
                         <<"h","t","t","p","s",":","/","/","d","e",".","l","i","n","k","e","d","i","n",".","c","o","m","/","i","n","/","r","2">>, <<"l","i","n","k","e","d","i","n">>)>> }
      [] c = "xing" ->
           { <<>>,
             <<collected(company, <<"I","n","a">>, <<"P","u","n","k","t">>, <<>>, <<"H","e","a","d"," ","o","f"," ","I","T">>,
                         <<"h","t","t","p","s",":","/","/","w","w","w",".","x","i","n","g",".","c","o","m","/","p","r","o","f","i","l","e","/","i","p">>, <<"x","i","n","g">>)>> }
      [] c = "register" ->
           { <<collected(company, <<"O","t","t","o">>, <<"K","e","r","n">>, <<"o",".","k","e","r","n","@","a","c","m","e",".","c","o","m">>, <<"G","e","s","c","h","a","e","f","t","s","f","u","e","h","r","e","r">>, <<>>, <<"i","m","p","r","e","s","s","u","m">>)>> }

\* the state of the loop iteration's locals outside an iteration
NoTasks == << >>

InitA ==
    /\ aInput \in AInputs
    /\ aPc = "start"
    /\ aIdx = 0 /\ aTasks = <<>> /\ aAll = <<>> /\ aLimited = <<>> /\ aPos = 0
    /\ stats = NULL /\ dataset = <<>> /\ aStatistics = <<>>
    /\ aVisited = {} /\ aCompleted = {} /\ aSleeps = <<>>
    /\ FnIdle
    /\ RLIdle
    /\ BIdle

\* main.js:27-31: no input
AStartNoInput ==
    /\ aPc = "start"
    /\ ~aInput.given
    /\ aPc' = "failed"
    /\ UNCHANGED <<aInput, aIdx, aTasks, aAll, aLimited, aPos, stats, dataset,
                   aStatistics, aVisited, aCompleted, aSleeps, fnVars, rlVars, bVars>>

\* the guard that lets every company list through
noCompanies_Never(companies) == FALSE

\* main.js:56: !companies || companies.length === 0
noCompanies(companies) == Len(companies) = 0

\* main.js:34-58: companies missing (default []) or empty
AStartNoCompanies ==
    /\ aPc = "start"
    /\ aInput.given
    /\ noCompanies(companiesOf(aInput))
    /\ aPc' = "failed"
    /\ UNCHANGED <<aInput, aIdx, aTasks, aAll, aLimited, aPos, stats, dataset,
                   aStatistics, aVisited, aCompleted, aSleeps, fnVars, rlVars, bVars>>

\* main.js:60-79: statistics initialised, the loop over companies entered
AStart ==
    /\ aPc = "start"
    /\ aInput.given
    /\ ~noCompanies(companiesOf(aInput))
    /\ stats' = [companiesProcessed |-> 0, contactsFound |-> 0, contactsValid |-> 0,
                 contactsSaved |-> 0, errors |-> 0]
    /\ aIdx' = 1
    /\ aPc' = "launch"
    /\ UNCHANGED <<aInput, aTasks, aAll, aLimited, aPos, dataset,
                   aStatistics, aVisited, aCompleted, aSleeps, fnVars, rlVars, bVars>>

\* main.js:79-130: one loop iteration begins; every enabled collector is called
\* and its promise pushed to extractionTasks
ALaunch ==
    /\ aPc = "launch"
    /\ aTasks' = [c \in Range(extractionTasks(aInput)) |->
                     [state |-> "pending", value |-> <<>>, failed |-> FALSE,
                      company |-> normalizeCompanyName(companiesOf(aInput)[aIdx])]]
    /\ aAll' = <<>>
    /\ aLimited' = <<>>
    /\ aPos' = 0
    /\ aVisited' = aVisited \cup {aIdx}
    /\ aPc' = "collecting"
    /\ UNCHANGED <<aInput, aIdx, stats, dataset, aStatistics, aCompleted, aSleeps,
                   fnVars, rlVars, bVars>>

\* a collector resolves with its contacts
ACollectorResolve(c) ==
    /\ aPc = "collecting"
    /\ c \in DOMAIN aTasks
    /\ aTasks[c].state = "pending"
    /\ \E contacts \in CollectorResults(c, aTasks[c].company) :
           aTasks' = [aTasks EXCEPT ![c].state = "fulfilled", ![c].value = contacts]
    /\ UNCHANGED <<aInput, aPc, aIdx, aAll, aLimited, aPos, stats, dataset,
                   aStatistics, aVisited, aCompleted, aSleeps, fnVars, rlVars, bVars>>

\* main.js:94-97 (and 105, 116, 126): a collector rejects; .catch logs and
\* returns []
ACollectorReject(c) ==
    /\ aPc = "collecting"
    /\ c \in DOMAIN aTasks
    /\ aTasks[c].state = "pending"
    /\ aTasks' = [aTasks EXCEPT ![c].state = "fulfilled", ![c].failed = TRUE]
    /\ UNCHANGED <<aInput, aPc, aIdx, aAll, aLimited, aPos, stats, dataset,
                   aStatistics, aVisited, aCompleted, aSleeps, fnVars, rlVars, bVars>>

\* a join that drops every result when one collector has failed
combineResults_NoneOnFailure(input, tasks) ==
    IF \E c \in DOMAIN tasks : tasks[c].failed THEN <<>>
    ELSE flatten([i \in 1..Len(extractionTasks(input)) |-> tasks[extractionTasks(input)[i]].value])

\* main.js:136-138: the results concatenated in the order of extractionTasks
combineResults(input, tasks) ==
    flatten([i \in 1..Len(extractionTasks(input)) |-> tasks[extractionTasks(input)[i]].value])

\* main.js:133-155: Promise.all resolved; combine, count, sort, deduplicate, limit
AJoin ==
    /\ aPc = "collecting"
    /\ \A c \in DOMAIN aTasks : aTasks[c].state = "fulfilled"
    /\ LET allContacts    == combineResults(aInput, aTasks)
           sortedContacts == sortContactsByPriority(allContacts, DefaultTargetRoles)
           uniqueContacts == deduplicateContacts(sortedContacts)
       IN  /\ aAll' = allContacts
           /\ stats' = [stats EXCEPT !.contactsFound = @ + Len(allContacts)]
           /\ aLimited' = limitContactsPerCompany(uniqueContacts, aInput.maxContactsPerCompany)
    /\ aPos' = 1
    /\ aPc' = "saving"
    /\ UNCHANGED <<aInput, aIdx, aTasks, dataset, aStatistics, aVisited, aCompleted,
                   aSleeps, fnVars, rlVars, bVars>>

\* const { _priority, ...cleanContact } = contact
cleanContact(contact) == [f \in (DOMAIN contact) \ {"_priority"} |-> contact[f]]

\* main.js:79 / 194: the loop moves on to the next company, or ends
AfterCompany(pc, idx) ==
    IF aIdx < Len(companiesOf(aInput))
    THEN pc = "launch" /\ idx = aIdx + 1
    ELSE pc = "writeStats" /\ idx = aIdx

\* the locals of a loop iteration (main.js:85-155) go out of scope with it
IterationEnds ==
    aTasks' = NoTasks /\ aAll' = <<>> /\ aLimited' = <<>> /\ aPos' = 0

\* main.js:172-173 with contactsSaved left as it is
countSaved_ValidOnly(s) == [s EXCEPT !.contactsValid = @ + 1]

\* main.js:172-173  stats.contactsValid++; stats.contactsSaved++
countSaved(s) == [s EXCEPT !.contactsValid = @ + 1, !.contactsSaved = @ + 1]

\* main.js:192 left out
countError_None(s) == s

\* main.js:192  stats.errors++
countError(s) == [s EXCEPT !.errors = @ + 1]


\* main.js:158-173: a valid contact is pushed to the dataset and counted
ASaveValid ==
    /\ aPc = "saving"
    /\ aPos <= Len(aLimited)
    /\ validateContact(aLimited[aPos]).isValid
    /\ dataset' = Append(dataset, [org |-> aIdx, item |-> cleanContact(aLimited[aPos])])
    /\ stats' = countSaved(stats)
    /\ aPos' = aPos + 1
    /\ UNCHANGED <<aInput, aPc, aIdx, aTasks, aAll, aLimited, aStatistics, aVisited,
                   aCompleted, aSleeps, fnVars, rlVars, bVars>>

\* main.js:165, 189-193: Actor.pushData throws; the catch block counts an error
\* and the loop goes on with the next company
ASavePushThrows ==
    /\ aPc = "saving"
    /\ aPos <= Len(aLimited)
    /\ validateContact(aLimited[aPos]).isValid
    /\ stats' = countError(stats)
    /\ AfterCompany(aPc', aIdx')
    /\ IterationEnds
    /\ UNCHANGED <<aInput, dataset, aStatistics, aVisited,
                   aCompleted, aSleeps, fnVars, rlVars, bVars>>

\* main.js:174-179: an invalid contact is logged and skipped
ASkipInvalid ==
    /\ aPc = "saving"
    /\ aPos <= Len(aLimited)
    /\ ~validateContact(aLimited[aPos]).isValid
    /\ aPos' = aPos + 1
    /\ UNCHANGED <<aInput, aPc, aIdx, aTasks, aAll, aLimited, stats, dataset,
                   aStatistics, aVisited, aCompleted, aSleeps, fnVars, rlVars, bVars>>

\* companies.indexOf(company), 0-based
companiesIndexOf(companies, company) ==
    (CHOOSE i \in 1..Len(companies) :
        companies[i] = company /\ \A j \in 1..(i - 1) : companies[j] # company) - 1

\* main.js:182-188: the company is counted; sleep(5000) unless it is the last
AFinishCompany ==
    /\ aPc = "saving"
    /\ aPos > Len(aLimited)
    /\ stats' = [stats EXCEPT !.companiesProcessed = @ + 1]
    /\ aCompleted' = aCompleted \cup {aIdx}
    /\ IF companiesIndexOf(companiesOf(aInput), companiesOf(aInput)[aIdx]) < Len(companiesOf(aInput)) - 1
       THEN /\ aPc' = "sleeping"
            /\ aSleeps' = Append(aSleeps, aIdx)
            /\ aIdx' = aIdx
       ELSE /\ AfterCompany(aPc', aIdx')
            /\ aSleeps' = aSleeps
    /\ IterationEnds
    /\ UNCHANGED <<aInput, dataset, aStatistics, aVisited, fnVars, rlVars, bVars>>

\* main.js:187: the 5 seconds have passed
ASleepDone ==
    /\ aPc = "sleeping"
    /\ AfterCompany(aPc', aIdx')
    /\ UNCHANGED <<aInput, aTasks, aAll, aLimited, aPos, stats, dataset, aStatistics,
                   aVisited, aCompleted, aSleeps, fnVars, rlVars, bVars>>

\* main.js:196-210: the statistics are written to the key-value store
AWriteStats ==
    /\ aPc = "writeStats"
    /\ aStatistics' = Append(aStatistics, stats)
    /\ aPc' = "done"
    /\ UNCHANGED <<aInput, aIdx, aTasks, aAll, aLimited, aPos, stats, dataset,
                   aVisited, aCompleted, aSleeps, fnVars, rlVars, bVars>>

NextA ==
    \/ AStartNoInput
    \/ AStartNoCompanies
    \/ AStart
    \/ ALaunch
    \/ \E c \in {"website", "linkedin", "xing", "register"} : ACollectorResolve(c)
    \/ \E c \in {"website", "linkedin", "xing", "register"} : ACollectorReject(c)
    \/ AJoin
    \/ ASaveValid
    \/ ASavePushThrows
    \/ ASkipInvalid
    \/ AFinishCompany
    \/ ASleepDone
    \/ AWriteStats

SpecA == InitA /\ [][NextA]_vars

\* ---------------------------------------------------------------------------
\* Properties of the Actor.main pipeline
\* ---------------------------------------------------------------------------

\* the number of records the dataset holds for the i-th company of the list
EmittedFor(i) == Cardinality({k \in 1..Len(dataset) : dataset[k].org = i})

Min(a, b) == IF a <= b THEN a ELSE b

\* the candidates of a list that pass whole-record validation, counted by
\* distinct lower-cased email
ValidDistinct(contacts) ==
    Cardinality({ emailKey(contacts[k]) :
                    k \in {j \in 1..Len(contacts) : validateContact(contacts[j]).isValid} })

\* the loop iteration of company aIdx has handled every limited contact
IterationSaved == aPc = "saving" /\ aPos > Len(aLimited)

\* C2: for every company of the list and every configured maximum, the dataset
\* never holds more than maxContactsPerCompany records of that company,
\* whatever the collectors returned.
C2_AtMostMaxPerCompany ==
    \A i \in 1..MaxCompanies : EmittedFor(i) <= aInput.maxContactsPerCompany

\* a company with more distinct valid candidates than the maximum got exactly
\* the maximum
C2_Witness ==
    /\ IterationSaved
    /\ aInput.maxContactsPerCompany >= 1
    /\ ValidDistinct(aAll) > aInput.maxContactsPerCompany
    /\ EmittedFor(aIdx) = aInput.maxContactsPerCompany

\* C3: when a company's iteration has saved its contacts, the number of records
\* emitted for it is at least min(max, V), V being the number of its candidates
\* with distinct emails that pass validateContact.
C3_AtLeastMinMaxValid ==
    IterationSaved =>
        EmittedFor(aIdx) >= Min(aInput.maxContactsPerCompany, ValidDistinct(aAll))

\* C8: with no input, or a missing or empty company list, the run can only end
\* in the thrown error: no collector is called, nothing is pushed to the
\* dataset and no statistics are written.
C8_EmptyInputFailsFirst ==
    (~aInput.given \/ Len(companiesOf(aInput)) = 0) =>
        /\ aPc \in {"start", "failed"}
        /\ aVisited = {} /\ aTasks = NoTasks
        /\ dataset = <<>> /\ aStatistics = <<>> /\ stats = NULL

\* the run has thrown on a given input whose company list is missing or empty
C8_Witness ==
    /\ aPc = "failed"
    /\ aInput.given
    /\ Len(companiesOf(aInput)) = 0

\* list holds part as a run of neighbouring elements
HoldsRun(list, part) ==
    \E off \in 0..(Len(list) - Len(part)) : SubSeq(list, off + 1, off + Len(part)) = part

\* While the collectors of a company run and when they are joined: a rejecting
\* collector changes nothing but its own promise, the error count stays as it
\* is, and the merged list holds the contacts of every collector that resolved
\* and nothing else.
CollectorFailureIsolated ==
    aPc = "collecting" =>
        /\ stats'.errors = stats.errors
        /\ aPc' \in {"collecting", "saving"}
        /\ aPc' = "collecting" =>
               \A c \in DOMAIN aTasks :
                   aTasks'[c].failed /\ ~aTasks[c].failed =>
                       /\ aTasks'[c].value = <<>>
                       /\ \A d \in DOMAIN aTasks \ {c} : aTasks'[d] = aTasks[d]
        /\ aPc' = "saving" =>
               /\ \A c \in DOMAIN aTasks :
                      ~aTasks[c].failed => HoldsRun(aAll', aTasks[c].value)
               /\ \A k \in 1..Len(aAll') :
                      \E c \in DOMAIN aTasks :
                          /\ ~aTasks[c].failed
                          /\ \E n \in 1..Len(aTasks[c].value) : aTasks[c].value[n] = aAll'[k]

\* C18: a collector that rejects contributes an empty list and its error is not
\* raised to the company's pipeline: the contacts of every sibling collector
\* that resolved are all in the merged list, and the company is not counted
\* as an error.
C18_FailedCollectorIsolated == [][CollectorFailureIsolated]_vars

\* a company was joined with one collector failed and the contacts of another
\* in the merged list, and no error counted
C18_Witness ==
    /\ aPc = "saving"
    /\ stats.errors = 0
    /\ \E c, d \in DOMAIN aTasks :
           /\ aTasks[c].failed
           /\ ~aTasks[d].failed /\ aTasks[d].value # <<>>
           /\ HoldsRun(aAll, aTasks[d].value)

-----------------------------------------------------------------------------
(***************************************************************************)
(* The run / processCompany pipeline (part_002:480-598): pure parts        *)
(***************************************************************************)

\* part_004:22-34, in key order
ROLE_PRIORITY ==
    << [k |-> <<"c","t","O">>, score |-> 100], [k |-> <<"c","t","o">>, score |-> 100],
       [k |-> <<"c","i","o">>, score |-> 95], [k |-> <<"h","e","a","d"," ","o","f"," ","i","t">>, score |-> 90],
       [k |-> <<"i","t","-","l","e","i","t","e","r">>, score |-> 90], [k |-> <<"i","t"," ","m","a","n","a","g","e","r">>, score |-> 85],
       [k |-> <<"v","p"," ","e","n","g","i","n","e","e","r","i","n","g">>, score |-> 80],
       [k |-> <<"e","n","g","i","n","e","e","r","i","n","g"," ","m","a","n","a","g","e","r">>, score |-> 70],
       [k |-> <<"h","e","a","d"," ","o","f"," ","t","a","l","e","n","t"," ","a","c","q","u","i","s","i","t","i","o","n">>, score |-> 60],
       [k |-> <<"h","r"," ","d","i","r","e","c","t","o","r">>, score |-> 50],
       [k |-> <<"r","e","c","r","u","i","t","i","n","g"," ","m","a","n","a","g","e","r">>, score |-> 45] >>

\* part_004:36-44
roleScore(title) ==
    IF Falsy(title) THEN 0
    ELSE LET t == toLowerCase(title)
             scores == { ROLE_PRIORITY[i].score :
                           i \in {j \in DOMAIN ROLE_PRIORITY : includes(t, ROLE_PRIORITY[j].k)} }
         IN  IF scores = {} THEN 0 ELSE CHOOSE m \in scores : \A x \in scores : x <= m

\* validators.js:26-31
sanitizeName(name) ==
    IF Falsy(name) THEN NULL
    ELSE IF Len(trim(name)) = 0 THEN NULL ELSE trim(name)

\* x || null
orNull(x) == IF Falsy(x) THEN NULL ELSE x

\* part_002:529 and 560: phone.replace(/[\s()\-\.]+/g, '')
stripPhone(phone) == removeChars(phone, {" ", "(", ")", "-", "."})

\* part_002:524-543: the record built from a raw candidate
normalizeCandidate(normalized, c) ==
    LET email    == IF Falsy(c.email) THEN NULL ELSE trim(c.email)
        phoneRaw == IF Falsy(c.phone) THEN NULL ELSE trim(c.phone)
        phone    == IF Falsy(phoneRaw) THEN NULL ELSE stripPhone(phoneRaw)
    IN  [company |-> normalized, location |-> orNull(c.location),
         salutation |-> orNull(c.salutation),
         firstName |-> sanitizeName(c.firstName), lastName |-> sanitizeName(c.lastName),
         email |-> orNull(email), phone |-> orNull(phone),
         jobTitle |-> orNull(c.jobTitle), linkedInUrl |-> orNull(c.linkedInUrl),
         source |-> IF Falsy(c.source) THEN <<"u","n","k","n","o","w","n">> ELSE c.source]

\* part_002:544-547: accept if email valid OR phone valid
accepted(obj) ==
    \/ ~Falsy(obj.email) /\ isValidEmailB(obj.email)
    \/ ~Falsy(obj.phone) /\ isValidPhoneB(obj.phone)

\* part_002:523-548
validateCandidates(normalized, sourceCandidates) ==
    SelectSeq([i \in 1..Len(sourceCandidates) |->
                  normalizeCandidate(normalized, sourceCandidates[i])],
              accepted)

\* part_002:580 (and 555, 558): the fixed number of contacts per company
limitTo == 2

\* the backfill test without the phone validation
backfillAccepts_AnyPhone(c) == Falsy(c.email) /\ ~Falsy(c.phone)

\* part_002:559-561
backfillAccepts(c) ==
    Falsy(c.email) /\ ~Falsy(c.phone) /\ isValidPhoneB(stripPhone(c.phone))

\* part_002:562: the entry pushed for a phone-only candidate
backfillEntry(normalized, c) ==
    [company |-> normalized, location |-> orNull(c.location),
     salutation |-> orNull(c.salutation),
     firstName |-> sanitizeName(c.firstName), lastName |-> sanitizeName(c.lastName),
     email |-> NULL, phone |-> stripPhone(c.phone),
     jobTitle |-> orNull(c.jobTitle), linkedInUrl |-> orNull(c.linkedInUrl),
     source |-> IF Falsy(c.source) THEN <<"w","e","b","s","i","t","e">> ELSE c.source]

\* part_002:557-565
RECURSIVE backfillLoop(_, _, _)
backfillLoop(final, candidates, normalized) ==
    IF candidates = <<>> \/ Len(final) >= limitTo THEN final
    ELSE backfillLoop(IF backfillAccepts(Head(candidates))
                      THEN Append(final, backfillEntry(normalized, Head(candidates)))
                      ELSE final,
                      Tail(candidates), normalized)

\* part_002:554-566
backfill(deduped, sourceCandidates, normalized) ==
    IF Len(deduped) < limitTo
    THEN backfillLoop(deduped, sourceCandidates, normalized)
    ELSE deduped

\* part_002:569, 574-575: sourcePriority[source] || 0
sourcePriority(source) ==
    CASE source = <<"l","i","n","k","e","d","i","n">>  -> 100
      [] source = <<"w","e","b","s","i","t","e">>   -> 80
      [] source = <<"x","i","n","g">>      -> 70
      [] source = <<"i","m","p","r","e","s","s","u","m">> -> 60
      [] source = <<"u","n","k","n","o","w","n">>   -> 50
      [] OTHER                  -> 0

\* part_002:570-577: the comparator of final.sort
compareFinal(a, b) ==
    LET rA == roleScore(IF Falsy(a.jobTitle) THEN <<>> ELSE a.jobTitle)
        rB == roleScore(IF Falsy(b.jobTitle) THEN <<>> ELSE b.jobTitle)
    IN  IF rA # rB THEN rB - rA
        ELSE sourcePriority(b.source) - sourcePriority(a.source)

\* Array.prototype.sort is stable: x goes behind every element that does not
\* compare greater than it
RECURSIVE insertFinal(_, _)
insertFinal(sorted, x) ==
    IF sorted = <<>> THEN <<x>>
    ELSE IF compareFinal(Head(sorted), x) <= 0
         THEN <<Head(sorted)>> \o insertFinal(Tail(sorted), x)
         ELSE <<x>> \o sorted

RECURSIVE sortFinal(_)
sortFinal(final) ==
    IF final = <<>> THEN <<>>
    ELSE insertFinal(sortFinal(SubSeq(final, 1, Len(final) - 1)), final[Len(final)])

\* part_002:523-580: from the collected candidates to the records to push
decide(normalized, sourceCandidates) ==
    LET deduped == dedupeByEmail(validateCandidates(normalized, sourceCandidates))
        final   == backfill(deduped, sourceCandidates, normalized)
    IN  [deduped |-> deduped, final |-> final,
         limited |-> slice0(sortFinal(final), limitTo)]

-----------------------------------------------------------------------------
(***************************************************************************)
(* SpecB: run() with processCompany under p-limit (part_002:480-617)       *)
(*                                                                         *)
(* Each company is one task.  p-limit starts at most maxConcurrency tasks  *)
(* and starts the next queued one whenever a task settles.  A task awaits  *)
(* its extractors one after the other and then each Dataset.pushData.      *)
(***************************************************************************)

\* part_002:502-507
extractorsOrder == <<"website", "linkedin", "xing", "impressum">>

\* part_002:516: sourceCandidates.length >= 6
earlyStopAt == 6

\* a raw candidate as the extractors build it (part_003:650, 658-659)
candidate(company, firstName, lastName, email, phone, jobTitle, linkedInUrl, source) ==
    [company |-> company, location |-> NULL, salutation |-> NULL,
     firstName |-> firstName, lastName |-> lastName, email |-> email, phone |-> phone,
     jobTitle |-> jobTitle, linkedInUrl |-> linkedInUrl, source |-> source]

\* a person block with a personal address
AnnaB(company) ==
    candidate(company, <<"A","n","n","a">>, <<"M","u","e","l","l","e","r">>, <<"a",".","m","u","e","l","l","e","r","@","a","c","m","e",".","c","o","m">>, NULL, <<"C","T","O">>, NULL, <<"w","e","b","s","i","t","e">>)

\* the same address from a mailto: link, in another case
AnnaMailto(company) ==
    candidate(company, NULL, NULL, <<"A",".","M","u","e","l","l","e","r","@","A","C","M","E",".","c","o","m">>, NULL, NULL, NULL, <<"w","e","b","s","i","t","e">>)

\* the person of the LinkedIn profile below on the team page, with the title
\* the page gives and the address in another case
JanEngineer(company) ==
    candidate(company, <<"J","a","n">>, <<"S","c","h","m","i","d","t">>, <<"J",".","S","c","h","m","i","d","t","@","a","c","m","e",".","c","o","m">>, NULL, <<"E","n","g","i","n","e","e","r">>, NULL, <<"w","e","b","s","i","t","e">>)

\* a block with the generic inbox and the switchboard number
InfoWithPhone(company) ==
    candidate(company, NULL, NULL, <<"i","n","f","o","@","a","c","m","e",".","c","o","m">>, <<"+","4","9"," ","3","0"," ","1","2","3","4","5","6","7">>, NULL, NULL, <<"w","e","b","s","i","t","e">>)

\* tel: links; a national number fails PHONE_E164_REGEX
PhoneOnly(company, phone, source) ==
    candidate(company, NULL, NULL, NULL, phone, NULL, NULL, source)

\* The lists an extractor may resolve with (part_003:596-825).
ExtractorResults(ex, company) ==
    CASE ex = "website" ->
           { <<JanEngineer(company)>>,
             <<InfoWithPhone(company), PhoneOnly(company, <<"+","4","9"," ","(","3","0",")"," ","7","6","5","-","4","3","2","1">>, <<"w","e","b","s","i","t","e">>)>>,
             <<AnnaB(company), AnnaMailto(company),
               PhoneOnly(company, <<"0","3","0"," ","1","2","3","4","5","6","7">>, <<"w","e","b","s","i","t","e">>),
               PhoneOnly(company, <<"+","4","9"," ","(","3","0",")"," ","7","6","5","-","4","3","2","1">>, <<"w","e","b","s","i","t","e">>),
               PhoneOnly(company, <<"+","4","9"," ","4","0"," ","1","1","1","2","2","2","3">>, <<"w","e","b","s","i","t","e">>),
               PhoneOnly(company, <<"+","4","9"," ","8","9"," ","5","5","5","6","6","6","7">>, <<"w","e","b","s","i","t","e">>)>> }
      [] ex = "linkedin" ->
           { <<candidate(company, <<"J","a","n">>, <<"S","c","h","m","i","d","t">>, <<"j",".","s","c","h","m","i","d","t","@","a","c","m","e",".","c","o","m">>, NULL, <<"C","I","O">>,
                         <<"h","t","t","p","s",":","/","/","w","w","w",".","l","i","n","k","e","d","i","n",".","c","o","m","/","i","n","/","j","a","n","-","s","c","h","m","i","d","t">>, <<"l","i","n","k","e","d","i","n">>)>> }
      [] ex = "xing" -> { <<>> }
      [] ex = "impressum" ->
           { <<PhoneOnly(company, <<"+","4","9"," ","3","0"," ","7","6","5","4","3","2","1">>, <<"i","m","p","r","e","s","s","u","m">>)>> }

\* the companies a list is made of, in list order
BCompanies == << <<" ","A","c","m","e"," ","G","m","b","H"," ">>, <<"F","i","r","m"," ","A","G">>, <<"K","e","r","n"," ","K","G">>, <<"N","o","r","d"," ","S","E">> >>

\* the company lists of a run: the first n companies
BCompanyLists == { SubSeq(BCompanies, 1, n) : n \in 0..MaxCompanies }

\* part_002:483-484: the options of a run: none given, maxConcurrency given,
\* maxConcurrency and rateLimitMs given
RunOptions ==
    { [maxConcurrency |-> 0, rateLimitMs |-> 0],
      [maxConcurrency |-> 1, rateLimitMs |-> 0],
      [maxConcurrency |-> 1, rateLimitMs |-> 2000] }

\* part_002:481-484: the input of run().  kind = "missing": no companies field;
\* "string": companies is a non-empty string; "array": companies is a list.
\* maxConcurrency 0 and rateLimitMs 0 stand for an absent value.
BInputs ==
    { [kind |-> k, companies |-> cs, maxConcurrency |-> o.maxConcurrency,
       rateLimitMs |-> o.rateLimitMs] :
        k \in {"missing", "string", "array"}, cs \in BCompanyLists, o \in RunOptions }

\* part_002:481: input.companies || [] passes Array.isArray
companiesIsArray(input) == input.kind \in {"missing", "array"}

\* part_002:481: const companies = input.companies || []
companiesOfB(input) == IF input.kind = "array" THEN input.companies ELSE <<>>

\* part_002:483: input.maxConcurrency || 2
maxConcurrencyOf(input) == IF input.maxConcurrency = 0 THEN 2 ELSE input.maxConcurrency

\* part_002:484: input.rateLimitMs || 1000
rateLimitMsOf(input) == IF input.rateLimitMs = 0 THEN 1000 ELSE input.rateLimitMs

NoDecision == [deduped |-> <<>>, final |-> <<>>, limited |-> <<>>]

\* a task p-limit has queued
QueuedTask(name) ==
    [state |-> "queued", step |-> 0, normalized |-> NULL, cands |-> <<>>,
     decision |-> NoDecision, pos |-> 0]

\* part_002:496-511: p-limit runs the task; processCompany calls the first extractor
StartedTask(name) ==
    [QueuedTask(name) EXCEPT !.state = "extracting", !.step = 1,
                             !.normalized = normalizeCompanyNameB(name)]

\* a limiter that starts no queued task when a task settles
pLimitNext_None(input, tasks) == tasks

\* p-limit: a task has settled, the first queued task (if any) is started
pLimitNext(input, tasks) ==
    IF \E i \in DOMAIN tasks : tasks[i].state = "queued"
    THEN LET i == CHOOSE i \in DOMAIN tasks :
                      /\ tasks[i].state = "queued"
                      /\ \A j \in 1..(i - 1) : tasks[j].state # "queued"
         IN  [tasks EXCEPT ![i] = StartedTask(companiesOfB(input)[i])]
    ELSE tasks

InitB ==
    /\ bInput \in BInputs
    /\ bRun = "start"
    /\ bTasks = <<>>
    /\ bDataset = <<>>
    /\ results = <<>>
    /\ FnIdle
    /\ RLIdle
    /\ AIdle

\* part_002:486-488, 602-616: the input check throws; the direct-run wrapper
\* logs the error and calls process.exit(1)
BStartNoCompanies ==
    /\ bRun = "start"
    /\ ~companiesIsArray(bInput) \/ Len(companiesOfB(bInput)) = 0
    /\ bRun' = "failed"
    /\ UNCHANGED <<bInput, bTasks, bDataset, results, fnVars, rlVars, aVars>>

\* part_002:490-593: the browser is launched, every company is handed to the
\* limiter, which starts the first maxConcurrency tasks; run awaits Promise.all
BStart ==
    /\ bRun = "start"
    /\ companiesIsArray(bInput)
    /\ Len(companiesOfB(bInput)) > 0
    /\ bTasks' = [i \in 1..Len(companiesOfB(bInput)) |->
                     IF i <= maxConcurrencyOf(bInput)
                     THEN StartedTask(companiesOfB(bInput)[i])
                     ELSE QueuedTask(companiesOfB(bInput)[i])]
    /\ bRun' = "awaiting"
    /\ UNCHANGED <<bInput, bDataset, results, fnVars, rlVars, aVars>>

\* part_002:509-586: what processCompany does once an extractor has settled,
\* up to its next await.  broke: the early stop of line 516.
afterExtractor(input, tasks, i, cands, broke) ==
    IF tasks[i].step < Len(extractorsOrder) /\ ~broke
    THEN [tasks EXCEPT ![i].step = @ + 1, ![i].cands = cands]
    ELSE LET d == decide(tasks[i].normalized, cands)
         IN  IF d.limited = <<>>
             THEN pLimitNext(input, [tasks EXCEPT ![i].state = "fulfilled",
                                                  ![i].cands = cands, ![i].decision = d])
             ELSE [tasks EXCEPT ![i].state = "pushing", ![i].cands = cands,
                                ![i].decision = d, ![i].pos = 1]

\* part_002:511-516: the awaited extractor resolves with its candidates
BExtractorResolve(i) ==
    /\ bRun = "awaiting"
    /\ i \in DOMAIN bTasks
    /\ bTasks[i].state = "extracting"
    /\ \E cand \in ExtractorResults(extractorsOrder[bTasks[i].step], bTasks[i].normalized) :
           LET cands == bTasks[i].cands \o cand
           IN  bTasks' = afterExtractor(bInput, bTasks, i, cands, Len(cands) >= earlyStopAt)
    /\ UNCHANGED <<bInput, bRun, bDataset, results, fnVars, rlVars, aVars>>

\* part_002:517-519: the extractor (after its retry) throws; caught and logged
BExtractorReject(i) ==
    /\ bRun = "awaiting"
    /\ i \in DOMAIN bTasks
    /\ bTasks[i].state = "extracting"
    /\ bTasks' = afterExtractor(bInput, bTasks, i, bTasks[i].cands, FALSE)
    /\ UNCHANGED <<bInput, bRun, bDataset, results, fnVars, rlVars, aVars>>

\* part_002:583-589: Dataset.pushData resolved; the item is added to results
\* and the next one pushed, or the task ends
BPushDone(i) ==
    /\ bRun = "awaiting"
    /\ i \in DOMAIN bTasks
    /\ bTasks[i].state = "pushing"
    /\ LET item == bTasks[i].decision.limited[bTasks[i].pos]
       IN  /\ bDataset' = Append(bDataset, [org |-> i, item |-> item])
           /\ results' = Append(results, item)
    /\ bTasks' = IF bTasks[i].pos < Len(bTasks[i].decision.limited)
                 THEN [bTasks EXCEPT ![i].pos = @ + 1]
                 ELSE pLimitNext(bInput, [bTasks EXCEPT ![i].state = "fulfilled",
                                                        ![i].pos = @ + 1])
    /\ UNCHANGED <<bInput, bRun, fnVars, rlVars, aVars>>

\* part_002:584, 592-593: Dataset.pushData throws; nothing catches it inside
\* processCompany, so the task rejects (p-limit starts the next queued task)
\* and Promise.all rejects
BPushThrows(i) ==
    /\ bRun = "awaiting"
    /\ i \in DOMAIN bTasks
    /\ bTasks[i].state = "pushing"
    /\ bTasks' = pLimitNext(bInput, [bTasks EXCEPT ![i].state = "rejected"])
    /\ bRun' = "rejected"
    /\ UNCHANGED <<bInput, bDataset, results, fnVars, rlVars, aVars>>

\* part_002:593-598: every task is fulfilled; the browser is closed and the
\* results are returned
BAllDone ==
    /\ bRun = "awaiting"
    /\ \A i \in DOMAIN bTasks : bTasks[i].state = "fulfilled"
    /\ bRun' = "done"
    /\ UNCHANGED <<bInput, bTasks, bDataset, results, fnVars, rlVars, aVars>>

\* part_002:613-616: run() has thrown; the wrapper logs and calls
\* process.exit(1), which ends the tasks still under way
BExit ==
    /\ bRun = "rejected"
    /\ bRun' = "exited"
    /\ UNCHANGED <<bInput, bTasks, bDataset, results, fnVars, rlVars, aVars>>

NextB ==
    \/ BStartNoCompanies
    \/ BStart
    \/ \E i \in 1..MaxCompanies : BExtractorResolve(i)
    \/ \E i \in 1..MaxCompanies : BExtractorReject(i)
    \/ \E i \in 1..MaxCompanies : BPushDone(i)
    \/ \E i \in 1..MaxCompanies : BPushThrows(i)
    \/ BAllDone
    \/ BExit

SpecB == InitB /\ [][NextB]_vars

\* ---------------------------------------------------------------------------
\* Properties of the run / processCompany pipeline
\* ---------------------------------------------------------------------------

\* the records the dataset holds for the i-th company of the list
BEmitted(i) == SelectSeq(bDataset, LAMBDA e : e.org = i)

\* the raw candidates with a valid email
ValidEmailCandidates(cands) ==
    {j \in 1..Len(cands) : ~Falsy(cands[j].email) /\ isValidEmailB(cands[j].email)}

\* the raw candidates without an email and with a valid phone
PhoneOnlyCandidates(cands) ==
    {j \in 1..Len(cands) :
        Falsy(cands[j].email) /\ ~Falsy(cands[j].phone) /\ isValidPhoneB(cands[j].phone)}

\* the entries the backfill appended to the email-backed result of task i
Backfilled(i) ==
    SubSeq(bTasks[i].decision.final,
           Len(bTasks[i].decision.deduped) + 1, Len(bTasks[i].decision.final))

\* processCompany has decided on the records of company i
Decided(i) == bTasks[i].state \in {"pushing", "fulfilled", "rejected"}

\* C5: no record with a non-null email that fails isValidEmail is ever pushed
\* to the dataset.
C5_NoInvalidEmailEmitted ==
    \A k \in 1..Len(bDataset) :
        bDataset[k].item.email # NULL => isValidEmailB(bDataset[k].item.email)

\* C7: when the run has ended, every company of the list has been processed
\* to the end of its pipeline: a failure in one company's pipeline keeps no
\* other company from being processed.
C7_EveryCompanyProcessed ==
    bRun \in {"done", "exited"} =>
        \A i \in DOMAIN bTasks : bTasks[i].state \in {"fulfilled", "rejected"}

\* C9: a company with no candidate with a valid email and k >= 1 phone-only
\* candidates with a valid phone gets exactly min(k, max) records, each with
\* email null.
C9_PhoneOnlyBackfilled ==
    \A i \in DOMAIN bTasks :
        ( /\ bTasks[i].state = "fulfilled"
          /\ ValidEmailCandidates(bTasks[i].cands) = {}
          /\ PhoneOnlyCandidates(bTasks[i].cands) # {} )
        => /\ Len(BEmitted(i)) = Min(Cardinality(PhoneOnlyCandidates(bTasks[i].cands)), limitTo)
           /\ \A k \in 1..Len(BEmitted(i)) : BEmitted(i)[k].item.email = NULL

\* C10: every entry the backfill appends has email null and a phone that
\* passes isValidPhone, and the backfill never grows the result beyond the
\* limit.
C10_BackfillNullEmailValidPhone ==
    \A i \in DOMAIN bTasks :
        ( Decided(i) /\ Len(bTasks[i].decision.deduped) < limitTo )
        => /\ \A k \in 1..Len(Backfilled(i)) :
                  /\ Backfilled(i)[k].email = NULL
                  /\ isValidPhoneB(Backfilled(i)[k].phone)
           /\ Len(bTasks[i].decision.final) <= limitTo

\* the backfill appended an entry, reached the limit and left a further
\* phone-only candidate with a valid phone out
C10_Witness ==
    \E i \in DOMAIN bTasks :
        /\ Decided(i)
        /\ Len(Backfilled(i)) >= 1
        /\ Len(bTasks[i].decision.final) = limitTo
        /\ Cardinality(PhoneOnlyCandidates(bTasks[i].cands)) > Len(Backfilled(i))

\* the records emitted for company i whose email is key, case-insensitively
EmittedWithEmail(i, key) ==
    SelectSeq(BEmitted(i), LAMBDA e : ~Falsy(e.item.email) /\ toLowerCase(e.item.email) = key)

\* C11: when two otherwise valid candidates of one company carry the same email
\* (case-insensitively), one titled "CIO" and one titled "Engineer", then in
\* either order exactly one record is emitted for that email and it is the one
\* titled "CIO".
C11_TargetRoleWinsDuplicate ==
    \A i \in DOMAIN bTasks :
        bTasks[i].state = "fulfilled" =>
            \A j, k \in 1..Len(bTasks[i].cands) :
                LET a == bTasks[i].cands[j]
                    b == bTasks[i].cands[k]
                IN  ( /\ ~Falsy(a.email) /\ ~Falsy(b.email)
                      /\ isValidEmailB(a.email) /\ isValidEmailB(b.email)
                      /\ toLowerCase(a.email) = toLowerCase(b.email)
                      /\ a.jobTitle = <<"C","I","O">> /\ b.jobTitle = <<"E","n","g","i","n","e","e","r">> )
                    => /\ Len(EmittedWithEmail(i, toLowerCase(a.email))) = 1
                       /\ EmittedWithEmail(i, toLowerCase(a.email))[1].item.jobTitle = a.jobTitle

-----------------------------------------------------------------------------
(***************************************************************************)
(* SpecSort: the two rankers applied to one list of contacts               *)
(* (sortContactsByPriority, utils.js:80-85; final.sort, part_002:568-577)  *)
(***************************************************************************)

\* longest list handed to the rankers
MaxSortLen == 3

\* contacts of one company with the titles of the README's chain, titles that
\* match a role partly or not at all, and pairs that rank equal
SortPool ==
    { mkContact(Acme, <<"A","n","n","a">>, <<"M","u","e","l","l","e","r">>, <<"a",".","m","u","e","l","l","e","r","@","a","c","m","e",".","c","o","m">>, <<>>, <<"C","T","O">>, <<"w","e","b","s","i","t","e">>),
      mkContact(Acme, <<"T","o","m">>, <<"B","e","r","g">>, <<"t",".","b","e","r","g","@","a","c","m","e",".","c","o","m">>, <<>>, <<"C","I","O">>, <<"w","e","b","s","i","t","e">>),
      mkContact(Acme, <<"U","w","e">>, <<"H","e","l","d">>, <<"u",".","h","e","l","d","@","a","c","m","e",".","c","o","m">>, <<>>, <<"c","t","o">>, <<"l","i","n","k","e","d","i","n">>),
      mkContact(Acme, <<"J","a","n">>, <<"S","c","h","m","i","d","t">>, <<"j",".","s","c","h","m","i","d","t","@","a","c","m","e",".","c","o","m">>, <<>>, <<"C","I","O">>, <<"l","i","n","k","e","d","i","n">>),
      mkContact(Acme, <<"I","d","a">>, <<"L","e","n","z">>, <<"i",".","l","e","n","z","@","a","c","m","e",".","c","o","m">>, <<>>, <<"I","T"," ","M","a","n","a","g","e","r">>, <<"w","e","b","s","i","t","e">>),
      mkContact(Acme, <<"H","a","n","s">>, <<"R","a","u">>, <<"h",".","r","a","u","@","a","c","m","e",".","c","o","m">>, <<>>, <<"H","R"," ","D","i","r","e","c","t","o","r">>, <<"x","i","n","g">>),
      mkContact(Acme, <<"E","v","a">>, <<"E","n","g","e","l">>, <<"e",".","e","n","g","e","l","@","a","c","m","e",".","c","o","m">>, <<>>, <<"E","n","g","i","n","e","e","r">>, <<"w","e","b","s","i","t","e">>) }

InitSort ==
    /\ fnPc = "in"
    /\ fnArg \in SeqsUpTo(SortPool, MaxSortLen)
    /\ fnRes = NULL
    /\ RLIdle
    /\ AIdle
    /\ BIdle

\* main.js:145 sortContactsByPriority(allContacts, targetRoles), called twice on
\* the same list, and part_002:570-577 final.sort(...)
ApplySort ==
    /\ fnPc = "in"
    /\ fnPc' = "out"
    /\ fnRes' = [sorted |-> sortContactsByPriority(fnArg, DefaultTargetRoles),
                 again  |-> sortContactsByPriority(fnArg, DefaultTargetRoles),
                 final  |-> sortFinal(fnArg)]
    /\ UNCHANGED <<fnArg, rlVars, aVars, bVars>>

NextSort == ApplySort

SpecSort == InitSort /\ [][NextSort]_vars

\* the bijections of 1..n
Permutations1(n) == {p \in [1..n -> 1..n] : \A i, j \in 1..n : p[i] = p[j] => i = j}

\* out holds the elements of in, each with its score as _priority, by
\* non-increasing score, elements of equal score in their order in the input
RankedByScore(out, in) ==
    /\ Len(out) = Len(in)
    /\ \E p \in Permutations1(Len(in)) :
           /\ \A i \in 1..Len(out) :
                  /\ cleanContact(out[i]) = in[p[i]]
                  /\ out[i]._priority = calculateRolePriority(in[p[i]].jobTitle, DefaultTargetRoles)
           /\ \A i, j \in 1..Len(out) :
                  i < j => \/ out[i]._priority > out[j]._priority
                           \/ out[i]._priority = out[j]._priority /\ p[i] < p[j]

\* out holds the elements of in ordered by the comparator of final.sort,
\* elements that compare equal in their order in the input
RankedByComparator(out, in) ==
    /\ Len(out) = Len(in)
    /\ \E p \in Permutations1(Len(in)) :
           /\ \A i \in 1..Len(out) : out[i] = in[p[i]]
           /\ \A i, j \in 1..Len(out) :
                  i < j => \/ compareFinal(out[i], out[j]) < 0
                           \/ compareFinal(out[i], out[j]) = 0 /\ p[i] < p[j]

TitleChain == << <<"c","t","o">>, <<"c","i","o">>, <<"i","t"," ","m","a","n","a","g","e","r">>, <<"h","r"," ","d","i","r","e","c","t","o","r">> >>

\* the place of a contact's title in the chain, 0 for any other title
ChainPlace(contact) ==
    IF \E n \in DOMAIN TitleChain : toLowerCase(contact.jobTitle) = TitleChain[n]
    THEN CHOOSE n \in DOMAIN TitleChain : toLowerCase(contact.jobTitle) = TitleChain[n]
    ELSE 0

\* a list in which every contact with a title of the chain stands ahead of
\* every contact whose title comes later in the chain
FollowsChain(list) ==
    \A i, j \in 1..Len(list) :
        ( /\ ChainPlace(list[i]) # 0 /\ ChainPlace(list[j]) # 0
          /\ ChainPlace(list[i]) < ChainPlace(list[j]) )
        => i < j

\* C15: with the default target roles, the rankers (sortContactsByPriority and
\* final.sort) put a CTO ahead of a CIO, a CIO ahead of an IT Manager and an IT
\* Manager ahead of an HR Director.
C15_DefaultChainOrder ==
    fnPc = "out" => FollowsChain(fnRes.sorted) /\ FollowsChain(fnRes.final)


-----------------------------------------------------------------------------
(***************************************************************************)
(* SpecNormalize: normalizeCompanyName (utils.js:246-260) and              *)
(* sanitizeContact (part_005:193-207), each applied once and twice         *)
(***************************************************************************)

\* x?.trim() || ''
trimOrEmpty(x) == IF Falsy(x) THEN <<>> ELSE trim(x)

\* part_005:193-207; clock is new Date().toISOString() at the time of the call
sanitizeContact(contact, clock) ==
    [company |-> trimOrEmpty(contact.company), location |-> trimOrEmpty(contact.location),
     salutation |-> trimOrEmpty(contact.salutation),
     firstName |-> trimOrEmpty(contact.firstName), lastName |-> trimOrEmpty(contact.lastName),
     email |-> IF Falsy(contact.email) THEN <<>> ELSE toLowerCase(trim(contact.email)),
     phone |-> trimOrEmpty(contact.phone), jobTitle |-> trimOrEmpty(contact.jobTitle),
     linkedInUrl |-> trimOrEmpty(contact.linkedInUrl),
     source |-> IF Falsy(contact.source) THEN <<"u","n","k","n","o","w","n">> ELSE contact.source,
     scrapedAt |-> IF Falsy(contact.scrapedAt) THEN clock ELSE contact.scrapedAt]

\* most legal-entity suffixes at the end of a company name
MaxSuffixes == 2

NameBases == { <<"A","c","m","e">>, <<" ","K","e","r","n"," ","u","n","d"," ","S","o","e","h","n","e">>, <<"A","G">> }

\* the texts of 0..n suffixes of the list, each behind a blank
RECURSIVE SuffixChains(_)
SuffixChains(n) ==
    IF n = 0 THEN { <<>> }
    ELSE SuffixChains(n - 1)
         \cup { (c \o <<" ">>) \o suffixes[k] : c \in SuffixChains(n - 1), k \in DOMAIN suffixes }

CompanyNames == { b \o c : b \in NameBases, c \in SuffixChains(MaxSuffixes) }

\* raw contacts as a page gives them: blanks around the text, upper case in the
\* address, fields that are absent
RawContacts ==
    { [company |-> co, location |-> NULL, salutation |-> <<>>, firstName |-> <<" ","A","n","n","a">>,
       lastName |-> <<"M","u","e","l","l","e","r"," ">>, email |-> em, phone |-> <<" ","+","4","9"," ","3","0"," ","1","2","3","4","-","5","8","9","0">>,
       jobTitle |-> <<"C","T","O">>, linkedInUrl |-> NULL, source |-> NULL, scrapedAt |-> at] :
        co \in CompanyNames \cup { <<" ","A","c","m","e"," ">>, NULL },
        em \in { <<" ","A",".","M","u","e","l","l","e","r","@","A","c","m","e",".","C","O","M"," ">>, <<" "," ">>, NULL },
        at \in { <<"2","0","2","4","-","0","1","-","0","1","T","0","0",":","0","0",":","0","0",".","0","0","0","Z">>, NULL } }

InitNormalize ==
    /\ fnPc = "in"
    /\ fnArg \in RawContacts
    /\ fnRes = NULL
    /\ RLIdle
    /\ AIdle
    /\ BIdle

\* normalizeCompanyName of the contact's company and sanitizeContact of the
\* contact; then, at a later time, each applied to its own result
ApplyNormalize ==
    /\ fnPc = "in"
    /\ fnPc' = "out"
    /\ LET name    == normalizeCompanyName(fnArg.company)
           contact == sanitizeContact(fnArg, <<"2","0","2","4","-","0","6","-","0","1","T","1","0",":","0","0",":","0","0",".","0","0","0","Z">>)
       IN  fnRes' = [once  |-> [name |-> name, contact |-> contact],
                     twice |-> [name |-> normalizeCompanyName(name),
                                contact |-> sanitizeContact(contact, <<"2","0","2","4","-","0","6","-","0","1","T","1","0",":","0","0",":","0","5",".","0","0","0","Z">>)]]
    /\ UNCHANGED <<fnArg, rlVars, aVars, bVars>>

NextNormalize == ApplyNormalize

SpecNormalize == InitNormalize /\ [][NextNormalize]_vars

\* C13: normalizing a normalized company name, or sanitizing a sanitized
\* contact, changes nothing: f(f(x)) = f(x), also for names that end in more
\* than one legal-entity suffix.
C13_NormalizationIdempotent ==
    fnPc = "out" => fnRes.twice = fnRes.once

\* C16: the minimum spacing of the rate limiter the extractors use is the
\* run's rateLimitMs (1000 when the input gives none).
C16_LimiterUsesRateLimitMs ==
    bRun \in {"awaiting", "done", "rejected", "exited"} =>
        minDelayMs = rateLimitMsOf(bInput)

\* the companies whose processCompany has started and not yet settled
ActiveTasks(tasks) == {i \in DOMAIN tasks : tasks[i].state \in {"extracting", "pushing"}}

AtMostMaxConcurrency == Cardinality(ActiveTasks(bTasks)) <= maxConcurrencyOf(bInput)

\* a step in which a task settles while tasks are queued starts the first of them
QueuedReplacesSettled ==
    \A i \in DOMAIN bTasks :
        ( /\ i \in ActiveTasks(bTasks)
          /\ bTasks'[i].state \in {"fulfilled", "rejected"}
          /\ \E j \in DOMAIN bTasks : bTasks[j].state = "queued" )
        => LET j == CHOOSE j \in DOMAIN bTasks :
                        /\ bTasks[j].state = "queued"
                        /\ \A h \in 1..(j - 1) : bTasks[h].state # "queued"
           IN  bTasks'[j].state = "extracting"

\* C17: at most maxConcurrency companies are started and not yet finished, and
\* whenever a company's task completes or fails while others are queued, the
\* next queued one is started.
C17_ConcurrencyBounded == [](AtMostMaxConcurrency) /\ [][QueuedReplacesSettled]_vars

\* a company beyond the first maxConcurrency ones is under way after an earlier
\* one has settled, with maxConcurrency companies under way
C17_Witness ==
    /\ bRun = "awaiting"
    /\ Cardinality(ActiveTasks(bTasks)) = maxConcurrencyOf(bInput)
    /\ \E i, j \in DOMAIN bTasks :
           /\ bTasks[i].state \in {"fulfilled", "rejected"}
           /\ j > maxConcurrencyOf(bInput)
           /\ j \in ActiveTasks(bTasks)

\* the extractors processCompany has called for company i so far
ExtractorsStarted(i) == 1..bTasks[i].step

\* C19: within one company all collectors are started before any of them is
\* awaited: while a task awaits an extractor, every extractor has been called.
\* (Ranking begins once all have settled, and the emitted list does not depend
\* on the order in which they complete.)
C19_CollectorsStartedTogether ==
    \A i \in DOMAIN bTasks :
        bTasks[i].state = "extracting" => ExtractorsStarted(i) = DOMAIN extractorsOrder

-----------------------------------------------------------------------------
(***************************************************************************)
(* SpecPriority: calculateRolePriority applied to one title and one list   *)
(* of target roles (utils.js:13-42)                                        *)
(***************************************************************************)

\* job titles: roles of the default list in several spellings, titles that
\* hold or are held by a role, titles with and without a leadership keyword,
\* the empty and the absent title
JobTitles ==
    { <<"C","T","O">>, <<"c","t","o">>, <<"H","e","a","d"," ","o","f"," ","I","T">>, <<"H","R"," ","D","i","r","e","c","t","o","r">>, <<"E","n","g","i","n","e","e","r","i","n","g"," ","M","a","n","a","g","e","r">>,
      <<"E","n","g","i","n","e","e","r">>, <<"I","T">>, <<"S","e","n","i","o","r"," ","C","T","O"," ","O","f","f","i","c","e">>, <<"S","a","l","e","s"," ","L","e","a","d">>, <<"C","l","e","r","k">>, <<>>, NULL }

\* target-role lists: the default, lists in which a role holds another one
\* listed later or earlier, a list that names a role twice, a list of one
\* role and the empty list
RoleLists ==
    { DefaultTargetRoles,
      << <<"I","T">>, <<"H","e","a","d"," ","o","f"," ","I","T">> >>,
      << <<"H","e","a","d"," ","o","f"," ","I","T">>, <<"I","T">> >>,
      << <<"M","a","n","a","g","e","r">>, <<"E","n","g","i","n","e","e","r","i","n","g"," ","M","a","n","a","g","e","r">>, <<"C","T","O">> >>,
      << <<"c","t","o">>, <<"C","T","O">> >>,
      << <<"C","I","O">> >>,
      << <<"C","l","e","r","k">>, <<"S","a","l","e","s">> >>,
      << >> }

InitPriority ==
    /\ fnPc = "in"
    /\ fnArg \in [jobTitle : JobTitles, targetRoles : RoleLists]
    /\ fnRes = NULL
    /\ RLIdle
    /\ AIdle
    /\ BIdle

\* calculateRolePriority(jobTitle, targetRoles)
ApplyPriority ==
    /\ fnPc = "in"
    /\ fnPc' = "out"
    /\ fnRes' = calculateRolePriority(fnArg.jobTitle, fnArg.targetRoles)
    /\ UNCHANGED <<fnArg, rlVars, aVars, bVars>>

NextPriority == ApplyPriority

SpecPriority == InitPriority /\ [][NextPriority]_vars

\* the list positions (from 0) whose role equals the title, case-insensitively
ExactPositions(title, roles) ==
    {i \in 0..(Len(roles) - 1) : toLowerCase(title) = toLowerCase(roles[i + 1])}

\* the list positions (from 0) whose role holds the title or is held by it
SubstringPositions(title, roles) ==
    {i \in 0..(Len(roles) - 1) :
        \/ includes(toLowerCase(title), toLowerCase(roles[i + 1]))
        \/ includes(toLowerCase(roles[i + 1]), toLowerCase(title))}

Least(set) == CHOOSE m \in set : \A x \in set : m <= x

\* the score the scoring rule gives a title
RuleScore(title, roles) ==
    IF ExactPositions(title, roles) # {} THEN 1000 - Least(ExactPositions(title, roles))
    ELSE IF SubstringPositions(title, roles) # {}
         THEN 500 - Least(SubstringPositions(title, roles))
         ELSE IF \E kw \in leadershipKeywords : includes(toLowerCase(title), kw)
              THEN 100
              ELSE 0

\* C20: for every job title and target-role list, calculateRolePriority is
\* 1000 - i when the title equals the role at position i (the first such
\* position), 500 - i when it only matches a role as a substring in either
\* direction, first at position i, and otherwise 100 with a leadership keyword
\* and 0 without.
C20_ScoreFollowsRule ==
    (fnPc = "out" /\ ~Falsy(fnArg.jobTitle)) =>
        fnRes = RuleScore(fnArg.jobTitle, fnArg.targetRoles)

-----------------------------------------------------------------------------
(***************************************************************************)
(* SpecSort: ties between candidates of equal score                        *)
(***************************************************************************)

\* the score final.sort compares first (part_002:571-572)
finalScore(contact) == roleScore(IF Falsy(contact.jobTitle) THEN <<>> ELSE contact.jobTitle)

\* every two elements of equal score stand in the list with the more trusted source
\* first, trust being the repository's one ordering of the source identifiers
\* (sourcePriority, part_002:569: linkedin > website > xing > impressum)
TiesBySourceA(list) ==
    \A i, j \in 1..Len(list) :
        (i < j /\ list[i]._priority = list[j]._priority)
        => sourcePriority(list[i].source) >= sourcePriority(list[j].source)

TiesBySourceB(list) ==
    \A i, j \in 1..Len(list) :
        (i < j /\ finalScore(list[i]) = finalScore(list[j]))
        => sourcePriority(list[i].source) >= sourcePriority(list[j].source)

\* C21: among candidates of equal priority score the rankers
\* (sortContactsByPriority and final.sort) put the candidate of the more trusted
\* source ahead of the candidate of the less trusted one, whatever the order of
\* the input.
C21_TiesBrokenBySourceTrust ==
    fnPc = "out" => TiesBySourceA(fnRes.sorted) /\ TiesBySourceB(fnRes.final)

-----------------------------------------------------------------------------
(***************************************************************************)
(* SpecDedup: which member of a group survives, and contacts with no email *)
(***************************************************************************)

\* the lower-cased emails of a list
EmailKeys(list) ==
    {toLowerCase(list[i].email) : i \in {n \in 1..Len(list) : ~Falsy(list[n].email)}}

\* the positions of the candidates of a list that share the lower-cased email key
Group(list, key) ==
    {i \in 1..Len(list) : ~Falsy(list[i].email) /\ toLowerCase(list[i].email) = key}

\* the first position of the group whose score is the maximum of the group
\* (a candidate that carries no score counts 0, as in utils.js:62-63)
FirstBest(in, key) ==
    Least({i \in Group(in, key) :
              \A j \in Group(in, key) : priorityOf(in[i]) >= priorityOf(in[j])})

\* out holds, for every email of in, the one candidate named by pick
Survivors(out, in, pick(_, _)) ==
    \A key \in EmailKeys(in) :
        /\ Cardinality(Group(out, key)) = 1
        /\ \A i \in Group(out, key) : out[i] = in[pick(in, key)]

FirstSeen(in, key) == Least(Group(in, key))

HasScores(list) == \E i \in 1..Len(list) : "_priority" \in DOMAIN list[i]

\* C22: for every group of candidates sharing a lower-cased email,
\* deduplicateContacts keeps a candidate whose score is the maximum of the
\* group, and of the candidates with that score the one seen first (the first
\* of the group when no candidate carries a score); dedupeByEmail, whose
\* candidates carry no score, keeps the one seen first.
C22_SurvivorIsFirstBest ==
    fnPc = "out" =>
        /\ Survivors(fnRes.dedup, fnArg, FirstBest)
        /\ ~HasScores(fnArg) => Survivors(fnRes.byEmail, fnArg, FirstSeen)

\* a group of three: the second candidate outscored the first and replaced it,
\* the third has the second's score and did not replace it
C22_Witness ==
    /\ fnPc = "out"
    /\ Len(fnArg) = 3
    /\ Cardinality(EmailKeys(fnArg)) = 1
    /\ Cardinality(Group(fnArg, toLowerCase(fnArg[1].email))) = 3
    /\ priorityOf(fnArg[2]) > priorityOf(fnArg[1])
    /\ priorityOf(fnArg[3]) = priorityOf(fnArg[2])
    /\ fnArg[3] # fnArg[2]
    /\ fnRes.dedup = <<fnArg[2]>>

\* the positions of a list at which candidate c stands
PositionsOf(list, c) == {i \in 1..Len(list) : list[i] = c}

\* every candidate of in that has no email stands in out as often as in in
NoEmailKept(out, in) ==
    \A n \in 1..Len(in) :
        Falsy(in[n].email)
        => Cardinality(PositionsOf(out, in[n])) = Cardinality(PositionsOf(in, in[n]))

\* C23: for every input list, each candidate whose email is absent, null or
\* empty appears in the output of the deduplicators (deduplicateContacts and
\* dedupeByEmail), and such candidates are never merged with each other.
C23_NoEmailPassesThrough ==
    fnPc = "out" => NoEmailKept(fnRes.dedup, fnArg) /\ NoEmailKept(fnRes.byEmail, fnArg)

-----------------------------------------------------------------------------
(***************************************************************************)
(* SpecValidate: validateContact (part_005:145-186) applied to one contact *)
(***************************************************************************)

\* contacts whose fields are, one by one, valid, invalid, empty or null
ContactInputs ==
    { [company |-> co, location |-> <<>>, salutation |-> sa, firstName |-> fi,
       lastName |-> la, email |-> em, phone |-> ph, jobTitle |-> jo,
       linkedInUrl |-> li, source |-> <<"w","e","b","s","i","t","e">>] :
        co \in {Acme, <<" "," ">>, NULL},
        fi \in {<<"A","n","n","a">>, <<"A">>, NULL},
        la \in {<<"M","u","e","l","l","e","r">>, <<"t","e","s","t">>},
        em \in {<<"a",".","m","u","e","l","l","e","r","@","a","c","m","e",".","c","o","m">>, <<"i","n","f","o","@","a","c","m","e",".","c","o","m">>, NULL},
        jo \in {<<"C","T","O">>, <<"t","b","d">>, <<>>},
        ph \in {<<>>, NULL, GoodPhone, <<"1","2","3","4","5","6","7">>},
        sa \in {<<>>, <<"F","r","a","u">>, <<"S","i","r">>},
        li \in {<<>>, <<"h","t","t","p","s",":","/","/","w","w","w",".","l","i","n","k","e","d","i","n",".","c","o","m","/","i","n","/","a","n","n","a","-","m","u","e","l","l","e","r">>, <<"h","t","t","p","s",":","/","/","e","x","a","m","p","l","e",".","c","o","m","/","i","n","/","a","n","n","a">>} }

InitValidate ==
    /\ fnPc = "in"
    /\ fnArg \in ContactInputs
    /\ fnRes = NULL
    /\ RLIdle
    /\ AIdle
    /\ BIdle

\* validateContact(contact): the function assigns to nothing but its own errors
\* array, the contact stays as it is
ApplyValidate ==
    /\ fnPc = "in"
    /\ fnPc' = "out"
    /\ fnRes' = validateContact(fnArg)
    /\ UNCHANGED <<fnArg, rlVars, aVars, bVars>>

NextValidate == ApplyValidate

SpecValidate == InitValidate /\ [][NextValidate]_vars

\* the rules of whole-record validity, each with the entry of the errors list
\* that stands for it and whether the contact violates it
Rules(contact) ==
    { [error |-> "Company name is required",
       violated |-> Falsy(contact.company) \/ trim(contact.company) = <<>>],
      [error |-> "Invalid or missing first name", violated |-> ~isValidName(contact.firstName)],
      [error |-> "Invalid or missing last name", violated |-> ~isValidName(contact.lastName)],
      [error |-> "Invalid or generic email address", violated |-> ~isValidEmail(contact.email)],
      [error |-> "Invalid or missing job title", violated |-> ~isValidJobTitle(contact.jobTitle)],
      [error |-> "Invalid phone number format",
       violated |-> ~Falsy(contact.phone) /\ ~isValidPhone(contact.phone)],
      [error |-> "Invalid salutation",
       violated |-> ~Falsy(contact.salutation) /\ ~isValidSalutation(contact.salutation)],
      [error |-> "Invalid LinkedIn URL",
       violated |-> ~Falsy(contact.linkedInUrl) /\ ~isValidLinkedInUrl(contact.linkedInUrl)] }

ValidityFollowsRules ==
    fnPc = "out" =>
        /\ fnRes.isValid = (\A r \in Rules(fnArg) : ~r.violated)
        /\ \A r \in Rules(fnArg) :
               Cardinality({i \in 1..Len(fnRes.errors) : fnRes.errors[i] = r.error})
                   = IF r.violated THEN 1 ELSE 0
        /\ Len(fnRes.errors) = Cardinality({r \in Rules(fnArg) : r.violated})
        /\ fnRes.isValid = (fnRes.errors = <<>>)

ContactUnmodified == fnArg' = fnArg

\* C24: validateContact returns isValid = true exactly when the company is
\* non-empty, first name, last name, email and job title pass their predicates
\* and every present optional field (phone, salutation, profile URL) passes
\* its own; the errors list has one entry per violated rule and is empty
\* exactly when isValid is true; the contact passed in is not modified.
C24_ValidityIsConjunction == [](ValidityFollowsRules) /\ [][ContactUnmodified]_vars

\* a contact with a blank company and a present, malformed phone number was
\* rejected with exactly these two entries
C24_Witness ==
    /\ fnPc = "out"
    /\ fnArg.phone = <<"1","2","3","4","5","6","7">>
    /\ fnRes.isValid = FALSE
    /\ fnRes.errors = <<"Company name is required", "Invalid phone number format">>

-----------------------------------------------------------------------------
(***************************************************************************)
(* SpecRetry: retryWithBackoff(fn, maxRetries, initialDelay)               *)
(* (utils.js:179-198)                                                      *)
(*                                                                         *)
(* fnArg holds the arguments, fnRes the locals i and lastError, the value  *)
(* the returned promise settles with, and a log of the calls of fn and of  *)
(* sleep in the order they were made.  fnPc is the position in the         *)
(* function: "loop" at the test of the for loop, "sleeping" in             *)
(* `await sleep(delay)`, "resolved" or "rejected" once it has settled.     *)
(***************************************************************************)

\* largest maxRetries tried (the README allows 0 to 10)
MaxRetriesTried == 3

\* what fn may throw and what it may return
Errors == {"E1", "E2"}

Values == {"r1", "r2"}

RECURSIVE Pow2(_)
Pow2(n) == IF n = 0 THEN 1 ELSE 2 * Pow2(n - 1)

\* utils.js:187 with the exponent left out
backoffDelay_Constant(initialDelay, i) == initialDelay

\* utils.js:187  initialDelay * Math.pow(2, i)
backoffDelay(initialDelay, i) == initialDelay * Pow2(i)

InitRetry ==
    /\ fnPc = "loop"
    /\ fnArg \in [maxRetries : 0..MaxRetriesTried, initialDelay : {1000, 250}]
    /\ fnRes = [i |-> 0, lastError |-> "undefined", settled |-> "pending", log |-> <<>>]
    /\ RLIdle
    /\ AIdle
    /\ BIdle

\* utils.js:182-184: the loop test holds, fn() is called and fulfils with v
FnReturns(v) ==
    /\ fnPc = "loop"
    /\ fnRes.i < fnArg.maxRetries
    /\ fnPc' = "resolved"
    /\ fnRes' = [fnRes EXCEPT !.settled = v,
                              !.log = Append(@, [ev |-> "fn", n |-> fnRes.i, out |-> v])]
    /\ UNCHANGED <<fnArg, rlVars, aVars, bVars>>

\* utils.js:182-194: the loop test holds, fn() is called and rejects with e;
\* sleep(delay) is called unless this was the last round
FnThrows(e) ==
    /\ fnPc = "loop"
    /\ fnRes.i < fnArg.maxRetries
    /\ LET delay  == backoffDelay(fnArg.initialDelay, fnRes.i)
           called == Append(fnRes.log, [ev |-> "fn", n |-> fnRes.i, out |-> e])
       IN  IF fnRes.i < fnArg.maxRetries - 1
           THEN /\ fnPc' = "sleeping"
                /\ fnRes' = [fnRes EXCEPT !.lastError = e,
                                          !.log = Append(called, [ev |-> "sleep", n |-> delay, out |-> ""])]
           ELSE /\ fnPc' = "loop"
                /\ fnRes' = [fnRes EXCEPT !.lastError = e, !.log = called, !.i = @ + 1]
    /\ UNCHANGED <<fnArg, rlVars, aVars, bVars>>

\* utils.js:192, 182: sleep(delay) has resolved; i++
SleepReturns ==
    /\ fnPc = "sleeping"
    /\ fnPc' = "loop"
    /\ fnRes' = [fnRes EXCEPT !.i = @ + 1]
    /\ UNCHANGED <<fnArg, rlVars, aVars, bVars>>

\* utils.js:182, 197: the loop test fails; throw lastError
ThrowLastError ==
    /\ fnPc = "loop"
    /\ fnRes.i >= fnArg.maxRetries
    /\ fnPc' = "rejected"
    /\ fnRes' = [fnRes EXCEPT !.settled = fnRes.lastError]
    /\ UNCHANGED <<fnArg, rlVars, aVars, bVars>>

NextRetry ==
    \/ \E v \in Values : FnReturns(v)
    \/ \E e \in Errors : FnThrows(e)
    \/ SleepReturns
    \/ ThrowLastError

SpecRetry == InitRetry /\ [][NextRetry]_vars

\* the positions of the log at which fn was called
FnCalls(log) == {p \in 1..Len(log) : log[p].ev = "fn"}

Settled == fnPc \in {"resolved", "rejected"}

C26_CalledOnceRejectsWithLast ==
    Settled =>
        /\ FnCalls(fnRes.log) # {}
        /\ fnPc = "rejected" => fnRes.settled = fnRes.log[Len(fnRes.log)].out

-----------------------------------------------------------------------------
(***************************************************************************)
(* SpecA: the run statistics and the pause between companies               *)
(***************************************************************************)

\* the number of companies whose loop iteration has ended
IterationsEnded ==
    CASE aPc \in {"launch", "collecting", "saving"} -> aIdx - 1
      [] aPc = "sleeping"                           -> aIdx
      [] aPc \in {"writeStats", "done"}             -> Len(companiesOf(aInput))
      [] OTHER                                      -> 0

\* C27: every company of the input list causes exactly one terminal counter
\* increment, of companiesProcessed or of errors, never both and never
\* neither; when the statistics are written companiesProcessed + errors is
\* the number of companies of the input.
C27_OneTerminalIncrement ==
    aPc \notin {"start", "failed"} =>
        /\ stats.companiesProcessed = Cardinality(aCompleted)
        /\ stats.companiesProcessed + stats.errors = IterationsEnded
        /\ aPc = "done" =>
               /\ aStatistics = <<stats>>
               /\ stats.companiesProcessed + stats.errors = Len(companiesOf(aInput))

\* a run of two companies, one of which ended in the catch block, has written
\* its statistics
C27_Witness ==
    /\ aPc = "done"
    /\ Len(companiesOf(aInput)) = 2
    /\ aStatistics[1].companiesProcessed = 1
    /\ aStatistics[1].errors = 1

\* C28: when the statistics are written, contactsSaved is the number of
\* records pushed to the dataset during the run, contactsValid equals
\* contactsSaved, and contactsSaved <= contactsFound, also in runs in which
\* Actor.pushData throws part-way through a company.
C28_SavedCountsPushed ==
    aPc \notin {"start", "failed"} =>
        /\ stats.contactsSaved = Len(dataset)
        /\ stats.contactsValid = stats.contactsSaved
        /\ stats.contactsSaved <= stats.contactsFound
        /\ aPc = "done" => aStatistics = <<stats>>

\* a run of one company that saved one contact before Actor.pushData threw on
\* the next has written its statistics
C28_Witness ==
    /\ aPc = "done"
    /\ Len(companiesOf(aInput)) = 1
    /\ aStatistics[1].errors = 1
    /\ aStatistics[1].contactsSaved = 1
    /\ Len(dataset) = 1

\* the companies after whose iteration sleep(5000) was called
SleptAfter == {aSleeps[k] : k \in 1..Len(aSleeps)}

\* C29: the loop over companies waits 5 seconds after a company exactly when
\* another company follows it in the list: it does not wait after the last
\* company, and no company's iteration starts unless the wait after the one
\* before it was made, also for lists with repeated names and runs in which
\* a company's iteration throws.
C29_WaitBetweenCompanies ==
    aPc \notin {"start", "failed"} =>
        /\ \A i \in SleptAfter : i < Len(companiesOf(aInput))
        /\ \A i \in aVisited : i > 1 => (i - 1) \in SleptAfter

-----------------------------------------------------------------------------
(***************************************************************************)
(* SpecA: sort, deduplicate, limit (main.js:144-153)                       *)
(***************************************************************************)

IsPrefix(a, b) == Len(a) <= Len(b) /\ SubSeq(b, 1, Len(a)) = a

\* deduplicateContacts, run over list, only ever adds to its Map: the Map
\* after n elements is the beginning of the Map after n + 1
NeverReplaces(list) ==
    \A n \in 0..(Len(list) - 1) :
        IsPrefix(dedupLoop(<<>>, SubSeq(list, 1, n)), dedupLoop(<<>>, SubSeq(list, 1, n + 1)))

NonIncreasing(list) ==
    \A i, j \in 1..Len(list) : i < j => list[i]._priority >= list[j]._priority

\* the best score among the candidates of a list that share the email key
BestScore(list, key) ==
    LET scores == {calculateRolePriority(list[i].jobTitle, DefaultTargetRoles) : i \in Group(list, key)}
    IN  CHOOSE s \in scores : \A t \in scores : s >= t

\* limited holds max candidates of all (all of them when there are fewer
\* emails), one per email, each the best of its email, and no email left out
\* has a candidate that scores higher than one taken
HighestScoringDistinct(limited, all, max) ==
    /\ Len(limited) = Min(max, Cardinality(EmailKeys(all)))
    /\ \A i, j \in 1..Len(limited) :
           i # j => toLowerCase(limited[i].email) # toLowerCase(limited[j].email)
    /\ \A i \in 1..Len(limited) :
           /\ \E n \in 1..Len(all) : cleanContact(limited[i]) = all[n]
           /\ limited[i]._priority = BestScore(all, toLowerCase(limited[i].email))
    /\ \A key \in EmailKeys(all) \ EmailKeys(limited) :
           \A i \in 1..Len(limited) : limited[i]._priority >= BestScore(all, key)

\* C30: in Actor.main's pipeline, deduplicateContacts applied to the output of
\* sortContactsByPriority never replaces a candidate it has kept, its output
\* is ordered by non-increasing score, and the first maxContactsPerCompany
\* entries the limiter takes are the highest-scoring candidates with distinct
\* emails (looked at when the limiter has returned, before the first contact is
\* validated).
C30_SortedDedupKeepsOrder ==
    (aPc = "saving" /\ aPos = 1) =>
        LET sortedContacts == sortContactsByPriority(aAll, DefaultTargetRoles)
            uniqueContacts == deduplicateContacts(sortedContacts)
        IN  /\ NeverReplaces(sortedContacts)
            /\ NonIncreasing(uniqueContacts)
            /\ aLimited = slice0(uniqueContacts, aInput.maxContactsPerCompany)
            /\ HighestScoringDistinct(aLimited, aAll, aInput.maxContactsPerCompany)

\* the collectors returned a low-scoring candidate ahead of a high-scoring one
\* with the same email and a third candidate; with a limit of one the
\* high-scoring one alone was taken
C30_Witness ==
    /\ aPc = "saving"
    /\ aInput.maxContactsPerCompany = 1
    /\ Len(aAll) = 3
    /\ toLowerCase(aAll[1].email) = toLowerCase(aAll[2].email)
    /\ calculateRolePriority(aAll[1].jobTitle, DefaultTargetRoles)
           < calculateRolePriority(aAll[2].jobTitle, DefaultTargetRoles)
    /\ Len(aLimited) = 1
    /\ cleanContact(aLimited[1]) = aAll[2]

=============================================================================
